---------------------------- MODULE Spec2Model ----------------------------
(***************************************************************************)
(* A model of the ClangLib code-intelligence plugin: the ClTreeMap         *)
(* container, the filename database, the persistent token index database   *)
(* with its binary stream format, and the synchronous-job hand-over        *)
(* between a posting thread and the worker thread.                         *)
(*                                                                         *)
(* wxString values are sequences of character codes; a byte stream is a    *)
(* sequence of numbers 0..255.                                             *)
(***************************************************************************)
EXTENDS Integers, Sequences, FiniteSets, TLC

VARIABLES
    \* ---- ClTreeMap<_TpVal> under test (treemap.h)
    tmData,      \* m_Data: the value table
    tmTree,      \* m_Tree: the (key, id) associations
    tmIssued,    \* history: the value handed to Insert, by returned id
    tmPeak,      \* history: the largest GetCount() seen so far
    tmLast,      \* history: the last operation applied
    \* ---- ClFilenameDatabase under test
    fdb,         \* m_pFileEntries of the database in use
    fAsked,      \* history: the (path, id) pairs GetFilenameId has returned
    fPhase,      \* "live", "written" (WriteOut done) or "read" (ReadIn done)
    fStream,     \* the bytes WriteOut produced
    fLoaded,     \* m_pFileEntries of the fresh database ReadIn filled
    fReadOk,     \* what ReadIn returned
    \* ---- ClTokenIndexDatabase under test
    idx,         \* the database in use
    ixCall,      \* history: the last operation and its arguments
    ixRepeat,    \* history: the last two calls were the same UpdateToken
    ixPhase,     \* "live", "written" (WriteOut done) or "read" (ReadIn done)
    ixStream,    \* the bytes of the index file
    ixTamper,    \* "none", "cut" or "header": what happened to the file
    ixLoaded,    \* the fresh database ReadIn was applied to
    ixReadOk,    \* what ReadIn returned
    \* ---- a synchronous job, its poster and the worker
    syJob,       \* the poster's copy of the job
    syClone,     \* the worker's copy of the job
    syResults,   \* *m_pResults, shared by the copies
    syMutex,     \* who holds *m_pMutex: "free", "poster" or "worker"
    syWaiting,   \* the poster is blocked on *m_pCond
    syWake,      \* what ended the wait: "none", "signaled" or "timeout"
    syPoster,    \* where the poster is
    syWorker,    \* where the worker is
    syRet,       \* what WaitCompletion returned
    syRead,      \* what the poster read off its copy
    syProduced,  \* history: what the worker's Execute produced
    syWhen,      \* history: when Completed ran, relative to the wait
    syReadAfter, \* history: the poster read after Completed had run
    \* ---- a job and its clones
    cjCells,   \* the storage of the jobs' members, by address
    cjJob,     \* the job the caller constructed
    cjClones,  \* the clones made so far
    cjGiven,   \* history: the original's input fields as constructed
    cjLast,    \* history: the last operation on a clone and its field
    \* ---- CodeCompleteAtJob::Execute
    ccPhase,         \* "idle", "constructed" or "executed"
    ccIncludeCtors,  \* m_IncludeCtors
    ccNative,        \* history: the candidates ClangProxy::CodeCompleteAt returned
    ccResults,       \* *m_pResults, what GetResults() exposes
    \* ---- LookupDefinitionJob::Execute over a project index
    lkDb,         \* the project's token index database
    lkPhase,      \* "build" or "executed"
    lkNative,     \* history: what the native parser answered in Execute
    lkLocations,  \* m_Locations, what GetResults() exposes
    lkTrace,      \* history: which stages Execute went through
    \* ---- ClTranslationUnit::ExpandDiagnostic
    dgPhase,   \* "idle" or "expanded"
    dgDiag,    \* history: the diagnostic handed to ExpandDiagnostic
    dgBefore,  \* history: inout_diagnostics as the caller passed it
    dgList,    \* inout_diagnostics after the call
    \* ---- HashToken
    hsPhase,       \* "idle" or "hashed"
    hsToken,       \* history: the chunks of the completion string hashed
    hsSigned,      \* history: plain char is signed in the build that ran
    hsHash,        \* what HashToken returned, as <<high half, low half>>
    hsIdentifier,  \* identifier after the call
    \* ---- a ClTranslationUnit and the native library behind it
    tuUnit,    \* the members of the ClTranslationUnit
    tuLib,     \* the native library: its live translation units and completion results
    tuNow,     \* the number of calls made so far, which is also the clock
    tuFailed,  \* history: a Parse or Reparse failed and no Parse has succeeded since
    tuLast,    \* history: the last call, its native calls, result and output
    \* ---- ClangDiagnostics: the diagnostics component and the editors it draws on
    uiPlugin,        \* m_pClangPlugin: nullptr while the component is not attached
    uiConnected,     \* the component's dynamic event table: connected menu ids, newest first
    uiManagerSinks,  \* event kinds the host manager delivers to the component
    uiPluginSinks,   \* event kinds the plugin delivers to the component
    uiActive,        \* the host's active built-in editor: a file, or 0 for none
    m_TranslUnitId,  \* the translation unit the component holds for the active editor
    m_Diagnostics,   \* the cached diagnostic list
    uiStc,           \* each editor's control: annotations, indicators, caret, first line
    uiNow,           \* number of events delivered so far
    uiLast,          \* history: the last event delivered and what it met
    \* ---- ClangJob::operator(): a job run on the worker and its completion event
    jrHandler,  \* m_pEventCallbackHandler of the proxy: nullptr or a handler
    jrJob,      \* the job the worker holds, or NullJob
    jrPc,       \* where operator() stands: none, ready, executed, done
    jrCells,    \* the heap: result buffers the sync jobs point to
    jrPending,  \* the handler's pending events, oldest first
    jrTrace,    \* history: the virtual calls operator() made on the current job
    jrPosted,   \* history: number of events posted for the current job
    jrJobs,     \* number of jobs constructed so far
    \* ---- ClTokenDatabase: the token database of one translation unit
    tdPc,        \* none before construction, then open, or aborted by a failed assert
    tdNdebug,    \* whether the build compiles assert() away
    tdDb,        \* m_pTokens and m_pFileTokens
    tdIndex,     \* m_pTokenIndexDB, the project index the database stores into
    tdNow,       \* number of calls made so far
    tdInserted,  \* history: the (token, id) pairs of the InsertToken calls
    tdRemoved,   \* history: the ids RemoveToken has been called on
    tdLast,      \* history: the last call, what it met and what it returned
    \* ---- ClangDiagnostics::OnDiagnostics: one drawing pass over a fresh editor control
    pnPhase,  \* idle, then drawn once the event has been handled
    pnEvent,  \* the event handled
    pnCfg,    \* the settings read while handling it
    pnStc,    \* the control of the active editor after the pass
    \* ---- job time stamps (ClangJob / EventJob constructors)
    tsClock,   \* the wall clock in seconds
    tsJob,     \* the job the poster constructed
    tsClones,  \* the copies Clone() made, in order
    \* ---- index mutex, ReadIn/AddToken and LookupTokenDisplayName
    mxKind,     \* how the index mutex was constructed
    mxCount,    \* how often the calling thread holds the mutex
    mxAttempt,  \* the last Lock() call: who, and the count before it
    nmOp,       \* the operation the thread is in
    nmDb,       \* the token index database
    nmPending,  \* ReadIn: the tokens still to be read
    nmStack,    \* LookupTokenDisplayName: the frames of the recursion
    nmLast,     \* the query and result of the finished lookup
    \* ---- AST traversal (ClAST_Visitor)
    avCtx,   \* the ClangVisitorContext of the traversal
    avNow,   \* the number of cursors visited
    avLast,  \* the last cursor, the context before it and the visitor's result
    \* ---- native translation-unit handles across ClTranslationUnit objects
    hnObjs,  \* the ClTranslationUnit objects, by slot
    hnLib,   \* the native library's account of handles
    hnOps,   \* the number of operations so far
    \* ---- a synchronous job from posting to Finalize
    fnPoster,   \* where the posting thread is
    fnWorker,   \* where the worker thread is in operator() of the clone
    fnHeap,     \* the shared objects: alive or deleted, and the delete count of each
    fnMutex,    \* the owner of *m_pMutex
    fnWaiting,  \* the poster waits on *m_pCond
    fnWake,     \* why the wait ended
    fnRet,      \* the result of WaitCompletion
    fnResults,  \* the content of *m_pResults
    fnRead,     \* what the poster read with GetResults
    fnTouched,  \* the deleted objects the worker accessed
    \* ---- StoreIndexes step by step against lookups of another thread
    stPc,      \* where the storing thread is in StoreIndexes
    stKeys,    \* the file keys the first loop still has to remove
    stId,      \* the slot the second loop is at
    stDb,      \* the translation unit's token database
    stIndex,   \* the project's token index database
    stBefore,  \* the index when StoreIndexes was entered
    stStores,  \* the number of StoreIndexes calls begun
    stLast     \* the last lookup of the other thread

treeVars == <<tmData, tmTree, tmIssued, tmPeak, tmLast>>
fileVars == <<fdb, fAsked, fPhase, fStream, fLoaded, fReadOk>>

indexVars == <<idx, ixCall, ixRepeat, ixPhase, ixStream, ixTamper, ixLoaded, ixReadOk>>

syncVars == <<syJob, syClone, syResults, syMutex, syWaiting, syWake, syPoster, syWorker,
              syRet, syRead, syProduced, syWhen, syReadAfter>>

cloneVars == <<cjCells, cjJob, cjClones, cjGiven, cjLast>>

completeVars == <<ccPhase, ccIncludeCtors, ccNative, ccResults>>

lookupVars == <<lkDb, lkPhase, lkNative, lkLocations, lkTrace>>

diagVars == <<dgPhase, dgDiag, dgBefore, dgList>>

hashVars == <<hsPhase, hsToken, hsSigned, hsHash, hsIdentifier>>

unitVars == <<tuUnit, tuLib, tuNow, tuFailed, tuLast>>

uiVars == <<uiPlugin, uiConnected, uiManagerSinks, uiPluginSinks, uiActive, m_TranslUnitId, m_Diagnostics, uiStc, uiNow, uiLast>>

runVars == <<jrHandler, jrJob, jrPc, jrCells, jrPending, jrTrace, jrPosted, jrJobs>>

tdVars == <<tdPc, tdNdebug, tdDb, tdIndex, tdNow, tdInserted, tdRemoved, tdLast>>

paintVars == <<pnPhase, pnEvent, pnCfg, pnStc>>

stampVars == <<tsClock, tsJob, tsClones>>

nameVars == <<mxKind, mxCount, mxAttempt, nmOp, nmDb, nmPending, nmStack, nmLast>>

visitVars == <<avCtx, avNow, avLast>>

handleVars == <<hnObjs, hnLib, hnOps>>

finVars == <<fnPoster, fnWorker, fnHeap, fnMutex, fnWaiting, fnWake, fnRet, fnResults, fnRead, fnTouched>>

storeVars == <<stPc, stKeys, stId, stDb, stIndex, stBefore, stStores, stLast>>

vars == <<treeVars, fileVars, indexVars, syncVars, cloneVars, completeVars,
          lookupVars, diagVars, hashVars, unitVars, uiVars, runVars, tdVars,
          paintVars, stampVars, nameVars, visitVars, handleVars, finVars,
          storeVars>>

\* What the operations of one component leave alone.
notTree == <<fileVars, indexVars, syncVars, cloneVars, completeVars,
             lookupVars, diagVars, hashVars, unitVars, uiVars, runVars,
             tdVars, paintVars, stampVars, nameVars, visitVars, handleVars,
             finVars, storeVars>>
notFile == <<treeVars, indexVars, syncVars, cloneVars, completeVars,
             lookupVars, diagVars, hashVars, unitVars, uiVars, runVars,
             tdVars, paintVars, stampVars, nameVars, visitVars, handleVars,
             finVars, storeVars>>
notIndex == <<treeVars, fileVars, syncVars, cloneVars, completeVars,
              lookupVars, diagVars, hashVars, unitVars, uiVars, runVars,
              tdVars, paintVars, stampVars, nameVars, visitVars, handleVars,
              finVars, storeVars>>
notSync == <<treeVars, fileVars, indexVars, cloneVars, completeVars,
             lookupVars, diagVars, hashVars, unitVars, uiVars, runVars,
             tdVars, paintVars, stampVars, nameVars, visitVars, handleVars,
             finVars, storeVars>>
notClone == <<treeVars, fileVars, indexVars, syncVars, completeVars,
              lookupVars, diagVars, hashVars, unitVars, uiVars, runVars,
              tdVars, paintVars, stampVars, nameVars, visitVars, handleVars,
              finVars, storeVars>>
notComplete == <<treeVars, fileVars, indexVars, syncVars, cloneVars,
                 lookupVars, diagVars, hashVars, unitVars, uiVars, runVars,
                 tdVars, paintVars, stampVars, nameVars, visitVars,
                 handleVars, finVars, storeVars>>
notLookup == <<treeVars, fileVars, indexVars, syncVars, cloneVars,
               completeVars, diagVars, hashVars, unitVars, uiVars, runVars,
               tdVars, paintVars, stampVars, nameVars, visitVars, handleVars,
               finVars, storeVars>>
notDiag == <<treeVars, fileVars, indexVars, syncVars, cloneVars,
             completeVars, lookupVars, hashVars, unitVars, uiVars, runVars,
             tdVars, paintVars, stampVars, nameVars, visitVars, handleVars,
             finVars, storeVars>>
notHash == <<treeVars, fileVars, indexVars, syncVars, cloneVars,
             completeVars, lookupVars, diagVars, unitVars, uiVars, runVars,
             tdVars, paintVars, stampVars, nameVars, visitVars, handleVars,
             finVars, storeVars>>
notUnit == <<treeVars, fileVars, indexVars, syncVars, cloneVars,
             completeVars, lookupVars, diagVars, hashVars, uiVars, runVars,
             tdVars, paintVars, stampVars, nameVars, visitVars, handleVars,
             finVars, storeVars>>
notUi == <<treeVars, fileVars, indexVars, syncVars, cloneVars, completeVars,
           lookupVars, diagVars, hashVars, unitVars, runVars, tdVars,
           paintVars, stampVars, nameVars, visitVars, handleVars, finVars,
           storeVars>>
notRun == <<treeVars, fileVars, indexVars, syncVars, cloneVars, completeVars,
            lookupVars, diagVars, hashVars, unitVars, uiVars, tdVars,
            paintVars, stampVars, nameVars, visitVars, handleVars, finVars,
            storeVars>>
notTd == <<treeVars, fileVars, indexVars, syncVars, cloneVars, completeVars,
           lookupVars, diagVars, hashVars, unitVars, uiVars, runVars,
           paintVars, stampVars, nameVars, visitVars, handleVars, finVars,
           storeVars>>
notPaint == <<treeVars, fileVars, indexVars, syncVars, cloneVars,
              completeVars, lookupVars, diagVars, hashVars, unitVars, uiVars,
              runVars, tdVars, stampVars, nameVars, visitVars, handleVars,
              finVars, storeVars>>
notStamp == <<treeVars, fileVars, indexVars, syncVars, cloneVars,
              completeVars, lookupVars, diagVars, hashVars, unitVars, uiVars,
              runVars, tdVars, paintVars, nameVars, visitVars, handleVars,
              finVars, storeVars>>
notName == <<treeVars, fileVars, indexVars, syncVars, cloneVars,
             completeVars, lookupVars, diagVars, hashVars, unitVars, uiVars,
             runVars, tdVars, paintVars, stampVars, visitVars, handleVars,
             finVars, storeVars>>
notVisit == <<treeVars, fileVars, indexVars, syncVars, cloneVars,
              completeVars, lookupVars, diagVars, hashVars, unitVars, uiVars,
              runVars, tdVars, paintVars, stampVars, nameVars, handleVars,
              finVars, storeVars>>
notHandle == <<treeVars, fileVars, indexVars, syncVars, cloneVars,
               completeVars, lookupVars, diagVars, hashVars, unitVars,
               uiVars, runVars, tdVars, paintVars, stampVars, nameVars,
               visitVars, finVars, storeVars>>
notFin == <<treeVars, fileVars, indexVars, syncVars, cloneVars, completeVars,
            lookupVars, diagVars, hashVars, unitVars, uiVars, runVars,
            tdVars, paintVars, stampVars, nameVars, visitVars, handleVars,
            storeVars>>
notStore == <<treeVars, fileVars, indexVars, syncVars, cloneVars,
              completeVars, lookupVars, diagVars, hashVars, unitVars, uiVars,
              runVars, tdVars, paintVars, stampVars, nameVars, visitVars,
              handleVars, finVars>>

-----------------------------------------------------------------------------
(* Generic helpers                                                         *)

Min(a, b) == IF a < b THEN a ELSE b

Range(s) == {s[i] : i \in DOMAIN s}

\* The elements of a set of integers in ascending order (std::set iteration).
RECURSIVE SortedSeq(_)
SortedSeq(S) ==
    IF S = {} THEN <<>>
    ELSE LET m == CHOOSE x \in S : \A y \in S : x <= y
         IN  <<m>> \o SortedSeq(S \ {m})

-----------------------------------------------------------------------------
(* ClTreeMap<int>: the key -> value multimap that indexes every ClTreeMap. *)
(* Its implementation is not part of the sources at hand; it is modelled   *)
(* as the list of (key, value) associations in insertion order.            *)

IntTree_Empty == <<>>

IntTree_Insert(tree, key, value) == Append(tree, <<key, value>>)

IntTree_RemoveValue(tree, key, value) ==
    LET Keep(p) == p # <<key, value>> IN SelectSeq(tree, Keep)

IntTree_RemoveKey(tree, key) ==
    LET Keep(p) == p[1] # key IN SelectSeq(tree, Keep)

IntTree_GetIdSet(tree, key) == {tree[i][2] : i \in {j \in DOMAIN tree : tree[j][1] = key}}

IntTree_GetKeySet(tree) == {tree[i][1] : i \in DOMAIN tree}

\* ClTreeMap<int>::GetValue "returns id".
IntTree_GetValue(id) == id

-----------------------------------------------------------------------------
(* ClTreeMap<_TpVal> (treemap.h): a record [data, tree].  Ids are 0-based  *)
(* indexes into data, so id i is data[i + 1].                              *)

TreeMap_Empty == [data |-> <<>>, tree |-> IntTree_Empty]

\* m_Data.push_back(value); return m_Tree.Insert(key, m_Data.size() - 1);
TreeMap_Insert(tm, key, value) ==
    [data |-> Append(tm.data, value),
     tree |-> IntTree_Insert(tm.tree, key, Len(tm.data))]

TreeMap_InsertedId(tm) == Len(tm.data)

\* std::vector<_TpVal>(m_Data).swap(m_Data): an element-wise copy.
TreeMap_Shrink(tm) ==
    [data |-> [i \in 1..Len(tm.data) |-> tm.data[i]], tree |-> tm.tree]

TreeMap_GetIdSet(tm, key) == IntTree_GetIdSet(tm.tree, key)

\* A removal that also erases the value slot and renumbers the later ids.
TreeMap_RemoveIdKey_Compacting(tm, key, id) ==
    [data |-> IF id >= 0 /\ id < Len(tm.data)
              THEN SubSeq(tm.data, 1, id) \o SubSeq(tm.data, id + 2, Len(tm.data))
              ELSE tm.data,
     tree |-> IntTree_RemoveValue(tm.tree, key, id)]

TreeMap_RemoveIdKey(tm, key, id) ==
    [data |-> tm.data, tree |-> IntTree_RemoveValue(tm.tree, key, id)]

TreeMap_Remove(tm, key) ==
    [data |-> tm.data, tree |-> IntTree_RemoveKey(tm.tree, key)]

TreeMap_HasValue(tm, id) ==
    IF id < 0 THEN FALSE
    ELSE IF id >= Len(tm.data) THEN FALSE
    ELSE TRUE

TreeMap_GetValue(tm, id) == tm.data[id + 1]

TreeMap_GetCount(tm) == Len(tm.data)

TreeMap_GetKeySet(tm) == IntTree_GetKeySet(tm.tree)

-----------------------------------------------------------------------------
(* Specification SpecTree: one ClTreeMap driven by its public operations.  *)

MaxTreeSize == 3

TreeKeys == {<<97>>, <<98>>}
TreeValues == {10, 20}

TreeUnderTest == [data |-> tmData, tree |-> tmTree]

TreeIdle ==
    /\ tmData = <<>>
    /\ tmTree = <<>>
    /\ tmIssued = <<>>
    /\ tmPeak = 0
    /\ tmLast = "none"

TreeStep(tm, op) ==
    /\ tmData' = tm.data
    /\ tmTree' = tm.tree
    /\ tmPeak' = IF tmPeak > TreeMap_GetCount(TreeUnderTest)
                 THEN tmPeak ELSE TreeMap_GetCount(TreeUnderTest)
    /\ tmLast' = op
    /\ UNCHANGED notTree

TmInsert(key, value) ==
    /\ Len(tmData) < MaxTreeSize
    /\ TreeStep(TreeMap_Insert(TreeUnderTest, key, value), "Insert")
    /\ tmIssued' = Append(tmIssued, value)

TmRemove(key) ==
    /\ TreeStep(TreeMap_Remove(TreeUnderTest, key), "Remove")
    /\ UNCHANGED tmIssued

TmRemoveIdKey(key, id) ==
    /\ TreeStep(TreeMap_RemoveIdKey(TreeUnderTest, key, id), "RemoveIdKey")
    /\ UNCHANGED tmIssued

TmShrink ==
    /\ TreeStep(TreeMap_Shrink(TreeUnderTest), "Shrink")
    /\ UNCHANGED tmIssued

TreeNext ==
    \/ \E k \in TreeKeys, v \in TreeValues : TmInsert(k, v)
    \/ \E k \in TreeKeys : TmRemove(k)
    \/ \E k \in TreeKeys, id \in 0..(MaxTreeSize - 1) : TmRemoveIdKey(k, id)
    \/ TmShrink

-----------------------------------------------------------------------------
(* Text and binary encoding                                                *)

\* UTF-8 bytes of one character code (codes below 2048).
Utf8Char(c) ==
    IF c < 128 THEN <<c>>
    ELSE <<192 + (c \div 64), 128 + (c % 64)>>

\* wxString::utf8_str().
RECURSIVE Utf8Encode(_)
Utf8Encode(str) ==
    IF str = <<>> THEN <<>>
    ELSE Utf8Char(Head(str)) \o Utf8Encode(Tail(str))

\* The character codes of a UTF-8 byte sequence, or <<-1>> when it is not
\* valid UTF-8 (one- and two-byte forms).
RECURSIVE Utf8Decode(_)
Utf8Decode(bytes) ==
    IF bytes = <<>> THEN <<>>
    ELSE LET b == bytes[1] IN
         IF b < 128
         THEN LET rest == Utf8Decode(Tail(bytes))
              IN  IF rest = <<-1>> THEN rest ELSE <<b>> \o rest
         ELSE IF /\ b >= 194 /\ b < 224 /\ Len(bytes) >= 2
                 /\ bytes[2] >= 128 /\ bytes[2] < 192
         THEN LET rest == Utf8Decode(SubSeq(bytes, 3, Len(bytes)))
              IN  IF rest = <<-1>> THEN rest
                  ELSE <<(b - 192) * 64 + (bytes[2] - 128)>> \o rest
         ELSE <<-1>>

\* wxString::FromUTF8: the empty string when the bytes are not valid UTF-8.
FromUTF8(bytes) ==
    LET d == Utf8Decode(bytes) IN IF d = <<-1>> THEN <<>> ELSE d

\* The bytes of a C string buffer up to its first NUL.
RECURSIVE CStr(_)
CStr(buffer) ==
    IF buffer = <<>> \/ Head(buffer) = 0 THEN <<>>
    ELSE <<Head(buffer)>> \o CStr(Tail(buffer))

\* wxString::Format("%d", n) for -99 <= n <= 99.
FormatInt(n) ==
    LET m == IF n < 0 THEN 0 - n ELSE n
        digits == IF m < 10 THEN <<48 + m>> ELSE <<48 + (m \div 10), 48 + (m % 10)>>
    IN  IF n < 0 THEN <<45>> \o digits ELSE digits

Pow256(i) == CASE i = 0 -> 1 [] i = 1 -> 256 [] i = 2 -> 65536 [] i = 3 -> 16777216

\* The n little-endian bytes of m, 0 <= m < 2^31.
LEBytes(m, n) == [i \in 1..n |-> IF i <= 4 THEN (m \div Pow256(i - 1)) % 256 ELSE 0]

\* The n-byte two's complement image of v in native (little-endian) order,
\* as out.Write(&val, sizeof(val)) stores it; -2^31 <= v < 2^31.
EncodeSigned(v, n) ==
    IF v >= 0 THEN LEBytes(v, n)
    ELSE LET c == LEBytes((0 - v) - 1, n) IN [i \in 1..n |-> 255 - c[i]]

RECURSIVE LEValue(_, _)
LEValue(bytes, i) ==
    IF i > Len(bytes) \/ i > 4 THEN 0
    ELSE bytes[i] * Pow256(i - 1) + LEValue(bytes, i + 1)

\* The value of an n-byte two's complement image (inverse of EncodeSigned).
DecodeSigned(bytes) ==
    IF bytes[Len(bytes)] < 128
    THEN LEValue([i \in 1..Len(bytes) |-> IF i = 4 THEN bytes[i] % 128 ELSE bytes[i]], 1)
    ELSE 0 - LEValue([i \in 1..Len(bytes) |-> IF i = 4 THEN (255 - bytes[i]) % 128
                                                  ELSE 255 - bytes[i]], 1) - 1

SizeofInt == 4
SizeofLongLong == 8

WriteInt(val) == EncodeSigned(val, SizeofInt)

WriteLongLong(val) == EncodeSigned(val, SizeofLongLong)

\* len = strlen(str); WriteInt(len); the len bytes when len > 0.
WriteString(str) ==
    LET bytes == CStr(Utf8Encode(str)) IN WriteInt(Len(bytes)) \o bytes

-----------------------------------------------------------------------------
(* wxInputStream over a byte sequence.  A reader state is [pos, eof]: the  *)
(* bytes consumed so far and whether a read has run into the end of the    *)
(* stream (the last error is wxSTREAM_EOF).                                *)

StreamStart == [pos |-> 0, eof |-> FALSE]

CanRead(st) == ~st.eof

\* in.Read(buffer, n): delivers what is left, up to n bytes.
StreamRead(stream, st, n) ==
    LET got == Min(n, Len(stream) - st.pos) IN
    [bytes |-> SubSeq(stream, st.pos + 1, st.pos + got),
     lastRead |-> got,
     st |-> [pos |-> st.pos + got, eof |-> got < n]]

ReadFixed(stream, st, n) ==
    IF ~CanRead(st) THEN [ok |-> FALSE, val |-> 0, st |-> st]
    ELSE LET r == StreamRead(stream, st, n) IN
         IF r.lastRead # n THEN [ok |-> FALSE, val |-> 0, st |-> r.st]
         ELSE [ok |-> TRUE, val |-> DecodeSigned(r.bytes), st |-> r.st]

ReadInt(stream, st) == ReadFixed(stream, st, SizeofInt)

ReadLongLong(stream, st) == ReadFixed(stream, st, SizeofLongLong)

\* What the part of "char buffer[len + 1]" that in.Read did not fill holds:
\* k bytes of whatever was on the stack, here k copies of the byte junk.
Uninitialized(k, junk) == [i \in 1..k |-> junk]

\* ReadString once the length has been read (n is what ReadInt gave): len
\* bytes into a stack buffer that is converted as a C string.  The number
\* of bytes actually read is not looked at.
ReadString_Buffer(stream, junk, n) ==
    IF ~n.ok THEN [ok |-> FALSE, val |-> <<>>, st |-> n.st]
    ELSE IF n.val = 0 THEN [ok |-> TRUE, val |-> <<>>, st |-> n.st]
    ELSE IF ~CanRead(n.st) THEN [ok |-> FALSE, val |-> <<>>, st |-> n.st]
    ELSE LET r == StreamRead(stream, n.st, n.val) IN
         [ok |-> TRUE,
          val |-> FromUTF8(CStr(r.bytes \o Uninitialized(n.val - r.lastRead, junk))),
          st |-> r.st]

ReadString(stream, st, junk) == ReadString_Buffer(stream, junk, ReadInt(stream, st))

\* One field of the stream, by the function that reads it.
ReadField(kind, stream, st, junk) ==
    CASE kind = "int" -> ReadInt(stream, st)
      [] kind = "long long" -> ReadLongLong(stream, st)
      [] kind = "string" -> ReadString(stream, st, junk)

\* Fields read one after the other, "if (!Read...) return false" after
\* each.  Result: [ok, val, st], val the values read so far.
RECURSIVE ReadFields(_, _, _, _, _)
ReadFields(stream, st, junk, kinds, vals) ==
    IF kinds = <<>> THEN [ok |-> TRUE, val |-> vals, st |-> st]
    ELSE LET r == ReadField(Head(kinds), stream, st, junk) IN
         IF ~r.ok THEN [ok |-> FALSE, val |-> vals, st |-> r.st]
         ELSE ReadFields(stream, r.st, junk, Tail(kinds), Append(vals, r.val))

\* The bytes an unfilled buffer may hold.
JunkBytes == {0, 65, 255}

-----------------------------------------------------------------------------
(* ClFilenameDatabase                                                      *)

Slash == 47
Dot == 46

\* The components of a path, split at '/'.
RECURSIVE SplitPath(_, _)
SplitPath(path, cur) ==
    IF path = <<>> THEN <<cur>>
    ELSE IF Head(path) = Slash THEN <<cur>> \o SplitPath(Tail(path), <<>>)
    ELSE SplitPath(Tail(path), Append(cur, Head(path)))

\* Collapse "", "." and ".." components onto the directory stack acc.
RECURSIVE CollapseDots(_, _)
CollapseDots(parts, acc) ==
    IF parts = <<>> THEN acc
    ELSE LET c == Head(parts) IN
         IF c = <<>> \/ c = <<Dot>> THEN CollapseDots(Tail(parts), acc)
         ELSE IF c = <<Dot, Dot>>
         THEN CollapseDots(Tail(parts),
                           IF acc = <<>> THEN acc ELSE SubSeq(acc, 1, Len(acc) - 1))
         ELSE CollapseDots(Tail(parts), Append(acc, c))

RECURSIVE JoinPath(_)
JoinPath(parts) ==
    IF parts = <<>> THEN <<>>
    ELSE <<Slash>> \o Head(parts) \o JoinPath(Tail(parts))

\* The working directory relative paths are resolved against: "/w".
Cwd == <<<<119>>>>

\* wxFileName(filename).Normalize(wxPATH_NORM_ALL & ~wxPATH_NORM_CASE)
\* followed by GetFullPath(wxPATH_UNIX): made absolute against the working
\* directory, "." and ".." resolved, separators canonical.
NormalizePath(filename) ==
    LET parts == SplitPath(filename, <<>>)
        absolute == filename # <<>> /\ Head(filename) = Slash
    IN  JoinPath(CollapseDots(parts, IF absolute THEN <<>> ELSE Cwd))

\* A default-constructed wxDateTime is invalid.
InvalidDateTime == [valid |-> FALSE, ms |-> 0]
DateTime(ms) == [valid |-> TRUE, ms |-> ms]

ClFilenameEntry(filename, timestamp) == [filename |-> filename, timestamp |-> timestamp]

\* ClFilenameDatabase(): m_pFileEntries(new ClTreeMap<ClFilenameEntry>()).
FilenameDB_New == TreeMap_Empty

\* HasFilename: normalizes and looks up; never inserts.
FilenameDB_HasFilename(db, filename) ==
    LET normFile == NormalizePath(filename) IN
    IF Len(normFile) <= 0 THEN FALSE
    ELSE IF TreeMap_GetIdSet(db, normFile) = {} THEN FALSE
    ELSE TRUE

\* A lookup that compares the path as given, without normalizing it.
FilenameDB_GetFilenameId_Raw(db, filename) ==
    LET idList == TreeMap_GetIdSet(db, filename) IN
    IF idList = {}
    THEN [db |-> TreeMap_Insert(db, filename, ClFilenameEntry(filename, InvalidDateTime)),
          id |-> TreeMap_InsertedId(db)]
    ELSE [db |-> db, id |-> CHOOSE x \in idList : \A y \in idList : x <= y]

\* GetFilenameId: the smallest id filed under the normalized path, or a new
\* entry (with no timestamp) when there is none.  Result: [db, id].
FilenameDB_GetFilenameId(db, filename) ==
    LET normFile == NormalizePath(filename)
        idList == TreeMap_GetIdSet(db, normFile)
    IN  IF idList = {}
        THEN [db |-> TreeMap_Insert(db, normFile, ClFilenameEntry(normFile, InvalidDateTime)),
              id |-> TreeMap_InsertedId(db)]
        ELSE [db |-> db, id |-> CHOOSE x \in idList : \A y \in idList : x <= y]

FilenameDB_GetFilename(db, fId) ==
    IF ~TreeMap_HasValue(db, fId) THEN <<>>
    ELSE TreeMap_GetValue(db, fId).filename

\* UpdateFilenameTimestamp: entryRef.timestamp = timestamp.
FilenameDB_UpdateFilenameTimestamp(db, fId, timestamp) ==
    [db EXCEPT !.data[fId + 1].timestamp = timestamp]

\* ClFilenameDatabase::WriteOut: the count, then (filename, timestamp) per
\* id in ascending order; an invalid timestamp is written as 0.
RECURSIVE FilenameDB_WriteEntries(_, _)
FilenameDB_WriteEntries(db, i) ==
    IF i >= TreeMap_GetCount(db) THEN <<>>
    ELSE LET entry == TreeMap_GetValue(db, i)
             ts == IF entry.timestamp.valid THEN entry.timestamp.ms ELSE 0
         IN  WriteString(entry.filename) \o WriteLongLong(ts)
                 \o FilenameDB_WriteEntries(db, i + 1)

FilenameDB_WriteOut(db) ==
    WriteInt(TreeMap_GetCount(db)) \o FilenameDB_WriteEntries(db, 0)

\* ClFilenameDatabase::ReadIn, the loop from entry i on.  Result:
\* [ok, db, st]; what was inserted before a failure stays inserted.
RECURSIVE FilenameDB_ReadEntries(_, _, _, _, _, _)
FilenameDB_ReadEntries(db, stream, st, junk, i, packetCount) ==
    IF i >= packetCount THEN [ok |-> TRUE, db |-> db, st |-> st]
    ELSE LET r == ReadFields(stream, st, junk, <<"string", "long long">>, <<>>) IN
         IF ~r.ok THEN [ok |-> FALSE, db |-> db, st |-> r.st]
         ELSE FilenameDB_ReadEntries(
                  TreeMap_Insert(db, r.val[1], ClFilenameEntry(r.val[1], DateTime(r.val[2]))),
                  stream, r.st, junk, i + 1, packetCount)

FilenameDB_ReadIn(db, stream, st, junk) ==
    LET n == ReadInt(stream, st) IN
    IF ~n.ok THEN [ok |-> FALSE, db |-> db, st |-> n.st]
    ELSE FilenameDB_ReadEntries(db, stream, n.st, junk, 0, n.val)

-----------------------------------------------------------------------------
(* Specification SpecFile: one ClFilenameDatabase, written out and read    *)
(* back into a fresh one.                                                  *)

MaxFiles == 3

\* "a/f", "./a/../a/f", "/w/a/f", "a/g", "a//g" and "e-acute".
FilePaths ==
    { <<97, 47, 102>>,
      <<46, 47, 97, 47, 46, 46, 47, 97, 47, 102>>,
      <<47, 119, 47, 97, 47, 102>>,
      <<97, 47, 103>>,
      <<97, 47, 47, 103>>,
      <<233>> }

FileTimes == {7}

FileIdle ==
    /\ fdb = FilenameDB_New
    /\ fAsked = {}
    /\ fPhase = "live"
    /\ fStream = <<>>
    /\ fLoaded = FilenameDB_New
    /\ fReadOk = FALSE

FGetFilenameId(filename) ==
    /\ fPhase = "live"
    /\ LET r == FilenameDB_GetFilenameId(fdb, filename) IN
       /\ TreeMap_GetCount(r.db) <= MaxFiles
       /\ fdb' = r.db
       /\ fAsked' = fAsked \cup {<<filename, r.id>>}
    /\ UNCHANGED <<fPhase, fStream, fLoaded, fReadOk, notFile>>

FHasFilename(filename) ==
    /\ fPhase = "live"
    /\ FilenameDB_HasFilename(fdb, filename) \in BOOLEAN
    /\ UNCHANGED <<fileVars, notFile>>

FUpdateFilenameTimestamp(fId, ts) ==
    /\ fPhase = "live"
    /\ TreeMap_HasValue(fdb, fId)
    /\ fdb' = FilenameDB_UpdateFilenameTimestamp(fdb, fId, DateTime(ts))
    /\ UNCHANGED <<fAsked, fPhase, fStream, fLoaded, fReadOk, notFile>>

FWriteOut ==
    /\ fPhase = "live"
    /\ fStream' = FilenameDB_WriteOut(fdb)
    /\ fPhase' = "written"
    /\ UNCHANGED <<fdb, fAsked, fLoaded, fReadOk, notFile>>

FReadIn ==
    /\ fPhase = "written"
    /\ \E junk \in JunkBytes :
          \E r \in {FilenameDB_ReadIn(FilenameDB_New, fStream, StreamStart, junk)} :
             /\ fLoaded' = r.db
             /\ fReadOk' = r.ok
    /\ fPhase' = "read"
    /\ UNCHANGED <<fdb, fAsked, fStream, notFile>>

FileNext ==
    \/ \E p \in FilePaths : FGetFilenameId(p)
    \/ \E p \in FilePaths : FHasFilename(p)
    \/ \E id \in 0..(MaxFiles - 1), ts \in FileTimes : FUpdateFilenameTimestamp(id, ts)
    \/ FWriteOut
    \/ FReadIn

\* C7: paths that normalize to the same string were given the same id; the
\* ids in the database are the ones GetFilenameId returned (HasFilename
\* creates none); and after WriteOut and ReadIn into a fresh database every
\* path asked for before resolves to the id it had.
C7_FilenameIdStable ==
    /\ \A a \in fAsked, b \in fAsked :
          NormalizePath(a[1]) = NormalizePath(b[1]) => a[2] = b[2]
    /\ TreeMap_GetCount(fdb) = Cardinality({a[2] : a \in fAsked})
    /\ fPhase = "read" =>
          /\ fReadOk
          /\ \A a \in fAsked : FilenameDB_GetFilenameId(fLoaded, a[1]).id = a[2]

\* Two differently written paths of one file were asked for, next to a
\* second file, and the database went through WriteOut and ReadIn.
C7_Witness ==
    /\ fPhase = "read"
    /\ \E a \in fAsked, b \in fAsked :
          a[1] # b[1] /\ NormalizePath(a[1]) = NormalizePath(b[1]) /\ a[2] = 1
    /\ \E a \in fAsked : a[2] = 0

-----------------------------------------------------------------------------
(* ClIndexToken and ClTokenIndexDatabase                                   *)

\* Bitwise or of two masks below 256.
RECURSIVE BitOr(_, _)
BitOr(a, b) ==
    IF a = 0 THEN b
    ELSE IF b = 0 THEN a
    ELSE (IF a % 2 = 1 \/ b % 2 = 1 THEN 1 ELSE 0) + 2 * BitOr(a \div 2, b \div 2)

\* ClTokenType bits.
ClTokenType_Unknown == 0
ClTokenType_ScopeDecl == 1
ClTokenType_FuncDecl == 2
ClTokenType_VarDecl == 4
ClTokenType_ParmDecl == 8

\* The bit that marks a defining occurrence, or-ed into the type of one.
ClTokenType_DefGroup == 16

\* Bitwise and of two masks below 256.
RECURSIVE BitAnd(_, _)
BitAnd(a, b) ==
    IF a = 0 \/ b = 0 THEN 0
    ELSE (IF a % 2 = 1 /\ b % 2 = 1 THEN 1 ELSE 0) + 2 * BitAnd(a \div 2, b \div 2)

wxNOT_FOUND == -1

ClTokenPosition(line, column) == [line |-> line, column |-> column]

ClTokenRange(beginLocation, endLocation) ==
    [beginLocation |-> beginLocation, endLocation |-> endLocation]

ClIndexTokenLocation(tokenType, fileId, range) ==
    [tokenType |-> tokenType, fileId |-> fileId, range |-> range]

\* ClIndexToken(): no type, no locations, empty strings.
ClIndexToken_Default ==
    [identifier |-> <<>>, displayName |-> <<>>, USR |-> <<>>,
     tokenTypeMask |-> ClTokenType_Unknown,
     locationList |-> <<>>, parentTokenList |-> <<>>, scope |-> <<<<>>, <<>>>>]

\* ClIndexToken(identifier, displayName, fileId, USR, tokType, range,
\* parentTokenList, scope): one location.
ClIndexToken_New(identifier, displayName, fileId, USR, tokType, tokenRange, overrideTokenList, scope) ==
    [identifier |-> identifier, displayName |-> displayName, USR |-> USR,
     tokenTypeMask |-> tokType,
     locationList |-> <<ClIndexTokenLocation(tokType, fileId, tokenRange)>>,
     parentTokenList |-> overrideTokenList, scope |-> scope]

\* A ClTokenIndexDatabase: m_FileDB, m_pIndexTokenMap, m_pFileTokens and
\* m_bModified.
IndexDB_New ==
    [fileDB |-> FilenameDB_New, tokens |-> TreeMap_Empty,
     fileTokens |-> IntTree_Empty, modified |-> FALSE]

\* Clear(): drops every token and the file index; the filenames stay.
IndexDB_Clear(db) ==
    [db EXCEPT !.tokens = TreeMap_Empty, !.fileTokens = IntTree_Empty]

IndexDB_GetFilenameId(db, filename) ==
    LET r == FilenameDB_GetFilenameId(db.fileDB, filename) IN
    [db |-> [db EXCEPT !.fileDB = r.db], id |-> r.id]

\* The smallest element of a non-empty set of ids (*idList.begin()).
FirstId(S) == CHOOSE x \in S : \A y \in S : x <= y

\* push_back of every pair of items that std::find does not find in list.
RECURSIVE PushBackMissing(_, _)
PushBackMissing(list, items) ==
    IF items = <<>> THEN list
    ELSE PushBackMissing(
             IF Head(items) \in Range(list) THEN list ELSE Append(list, Head(items)),
             Tail(items))

\* The merge branch of UpdateToken without the two std::find checks.
IndexToken_Merge_NoFind(token, fileId, tokType, tokenRange, overrideTokenList) ==
    [token EXCEPT
        !.tokenTypeMask = BitOr(token.tokenTypeMask, tokType),
        !.locationList = Append(token.locationList,
                                ClIndexTokenLocation(tokType, fileId, tokenRange)),
        !.parentTokenList = token.parentTokenList \o overrideTokenList]

\* The merge branch of UpdateToken on the token found: the type bit, the
\* location unless present, the override pairs unless present.
IndexToken_Merge(token, fileId, tokType, tokenRange, overrideTokenList) ==
    LET location == ClIndexTokenLocation(tokType, fileId, tokenRange) IN
    [token EXCEPT
        !.tokenTypeMask = BitOr(token.tokenTypeMask, tokType),
        !.locationList = IF location \in Range(token.locationList)
                         THEN token.locationList
                         ELSE Append(token.locationList, location),
        !.parentTokenList = PushBackMissing(token.parentTokenList, overrideTokenList)]

\* A lookup that compares the USR only when the token has locations left.
IndexDB_Matches_Located(db, identifier, USR) ==
    {id \in TreeMap_GetIdSet(db.tokens, identifier) :
        /\ TreeMap_GetValue(db.tokens, id).USR = USR
        /\ TreeMap_GetValue(db.tokens, id).locationList # <<>>}

\* The ids filed under identifier whose token has exactly this USR.
IndexDB_Matches(db, identifier, USR) ==
    {id \in TreeMap_GetIdSet(db.tokens, identifier) :
        TreeMap_GetValue(db.tokens, id).USR = USR}

\* ClTokenIndexDatabase::UpdateToken.
IndexDB_UpdateToken(db, identifier, displayName, fileId, USR, tokType, tokenRange, overrideTokenList, scope) ==
    LET found == IndexDB_Matches(db, identifier, USR)
        fid == FormatInt(fileId)
    IN  IF found # {}
        THEN LET id == FirstId(found)
                 token == TreeMap_GetValue(db.tokens, id)
             IN  [db EXCEPT
                    !.tokens.data[id + 1] =
                        IndexToken_Merge(token, fileId, tokType, tokenRange,
                                         overrideTokenList),
                    !.fileTokens =
                        IntTree_Insert(IntTree_RemoveValue(db.fileTokens, fid, id), fid, id),
                    !.modified = TRUE]
        ELSE [db EXCEPT
                !.tokens = TreeMap_Insert(db.tokens, identifier,
                               ClIndexToken_New(identifier, displayName, fileId, USR,
                                                tokType, tokenRange, overrideTokenList,
                                                scope)),
                !.fileTokens = IntTree_Insert(db.fileTokens, fid,
                                              TreeMap_InsertedId(db.tokens)),
                !.modified = TRUE]

\* The location loop of RemoveFileTokens from position i (1-based) on:
\* itLoc = erase(itLoc) leaves itLoc on the element that followed, the loop
\* breaks when that is end(), and otherwise the for statement's ++itLoc
\* runs before the next test.
RECURSIVE EraseFileLocations(_, _, _)
EraseFileLocations(list, i, fileId) ==
    IF i > Len(list) THEN list
    ELSE IF list[i].fileId = fileId
    THEN LET erased == SubSeq(list, 1, i - 1) \o SubSeq(list, i + 1, Len(list)) IN
         IF i > Len(erased) THEN erased
         ELSE EraseFileLocations(erased, i + 1, fileId)
    ELSE EraseFileLocations(list, i + 1, fileId)

\* The token loop of RemoveFileTokens over the ids of tokenList, ascending.
RECURSIVE IndexDB_RemoveFromTokens(_, _, _)
IndexDB_RemoveFromTokens(tokens, ids, fileId) ==
    IF ids = <<>> THEN tokens
    ELSE LET id == Head(ids) IN
         IF ~TreeMap_HasValue(tokens, id)
         THEN IndexDB_RemoveFromTokens(tokens, Tail(ids), fileId)
         ELSE LET tok == TreeMap_GetValue(tokens, IntTree_GetValue(id)) IN
              IndexDB_RemoveFromTokens(
                  [tokens EXCEPT !.data[IntTree_GetValue(id) + 1].locationList =
                      EraseFileLocations(tok.locationList, 1, fileId)],
                  Tail(ids), fileId)

\* ClTokenIndexDatabase::RemoveFileTokens.
IndexDB_RemoveFileTokens(db, fileId) ==
    LET key == FormatInt(fileId)
        tokenList == IntTree_GetIdSet(db.fileTokens, key)
    IN  [db EXCEPT
            !.tokens = IndexDB_RemoveFromTokens(db.tokens, SortedSeq(tokenList), fileId),
            !.fileTokens = IntTree_RemoveKey(db.fileTokens, key)]

\* The file-index loop of AddToken over the token's locations.
RECURSIVE IndexDB_MapLocations(_, _, _)
IndexDB_MapLocations(fileTokens, locations, id) ==
    IF locations = <<>> THEN fileTokens
    ELSE LET fid == FormatInt(Head(locations).fileId) IN
         IndexDB_MapLocations(
             IntTree_Insert(IntTree_RemoveValue(fileTokens, fid, id), fid, id),
             Tail(locations), id)

\* ClTokenIndexDatabase::AddToken: nothing for an empty identifier.
IndexDB_AddToken(db, identifier, token) ==
    IF Len(identifier) > 0
    THEN [db EXCEPT
            !.tokens = TreeMap_Insert(db.tokens, identifier, token),
            !.fileTokens = IndexDB_MapLocations(db.fileTokens, token.locationList,
                                                TreeMap_InsertedId(db.tokens)),
            !.modified = TRUE]
    ELSE db

-----------------------------------------------------------------------------
(* The on-disk format of the token index database                          *)

ClTokenPacketType_filenames == 1
ClTokenPacketType_tokens == 2

\* "ClDb"
MagicBytes == <<67, 108, 68, 98>>

FormatVersion == 5

\* The version constants of the native library the plugin is built against.
CINDEX_VERSION_MAJOR == 0
CINDEX_VERSION_MINOR == 30

RECURSIVE WriteLocations(_)
WriteLocations(list) ==
    IF list = <<>> THEN <<>>
    ELSE LET it == Head(list) IN
         WriteInt(it.tokenType) \o WriteInt(it.fileId)
            \o WriteInt(it.range.beginLocation.line)
            \o WriteInt(it.range.beginLocation.column)
            \o WriteInt(it.range.endLocation.line)
            \o WriteInt(it.range.endLocation.column)
            \o WriteLocations(Tail(list))

RECURSIVE WriteParents(_)
WriteParents(list) ==
    IF list = <<>> THEN <<>>
    ELSE WriteString(Head(list)[1]) \o WriteString(Head(list)[2])
            \o WriteParents(Tail(list))

\* ClIndexToken::WriteOut.
IndexToken_WriteOut(token) ==
    WriteString(token.identifier) \o WriteString(token.displayName)
        \o WriteString(token.USR)
        \o WriteInt(Len(token.locationList)) \o WriteLocations(token.locationList)
        \o WriteInt(Len(token.parentTokenList)) \o WriteParents(token.parentTokenList)
        \o WriteString(token.scope[1]) \o WriteString(token.scope[2])

\* The locations held by the integers of the location loop, six a piece.
RECURSIVE LocationsRead(_)
LocationsRead(vals) ==
    IF Len(vals) < 6 THEN <<>>
    ELSE <<ClIndexTokenLocation(vals[1], vals[2],
               ClTokenRange(ClTokenPosition(vals[3], vals[4]),
                            ClTokenPosition(vals[5], vals[6])))>>
            \o LocationsRead(SubSeq(vals, 7, Len(vals)))

\* token.tokenTypeMask | typ for every location read.
RECURSIVE MaskRead(_, _)
MaskRead(mask, locations) ==
    IF locations = <<>> THEN mask
    ELSE MaskRead(BitOr(mask, Head(locations).tokenType), Tail(locations))

\* The pairs held by the strings of the parent loop, two a piece.
RECURSIVE ParentsRead(_)
ParentsRead(vals) ==
    IF Len(vals) < 2 THEN <<>>
    ELSE <<<<vals[1], vals[2]>>>> \o ParentsRead(SubSeq(vals, 3, Len(vals)))

\* ClIndexToken::ReadIn, its end: tail is the parent strings and the two
\* scope strings.  What ReadIn leaves in the token given: the strings
\* read, the lists read, and each location's type or-ed into the
\* tokenTypeMask the token object already had.
IndexToken_ReadIn_Scope(token, head, locs, tail) ==
    IF ~tail.ok THEN [ok |-> FALSE, token |-> token, st |-> tail.st]
    ELSE [ok |-> TRUE,
          token |-> [identifier |-> head.val[1], displayName |-> head.val[2],
                     USR |-> head.val[3],
                     tokenTypeMask |->
                         MaskRead(token.tokenTypeMask,
                                  LocationsRead(SubSeq(locs.val, 1, Len(locs.val) - 1))),
                     locationList |-> LocationsRead(SubSeq(locs.val, 1, Len(locs.val) - 1)),
                     parentTokenList |-> ParentsRead(SubSeq(tail.val, 1, Len(tail.val) - 2)),
                     scope |-> <<tail.val[Len(tail.val) - 1], tail.val[Len(tail.val)]>>],
          st |-> tail.st]

\* ClIndexToken::ReadIn from the parent loop on: locs is the location
\* integers and the count of parents.
IndexToken_ReadIn_Parents(token, stream, junk, head, locs) ==
    IF ~locs.ok THEN [ok |-> FALSE, token |-> token, st |-> locs.st]
    ELSE IndexToken_ReadIn_Scope(token, head, locs,
             ReadFields(stream, locs.st, junk,
                        [k \in 1..(2 * locs.val[Len(locs.val)] + 2) |-> "string"], <<>>))

\* ClIndexToken::ReadIn from the location loop on: head is identifier,
\* displayName, USR and the count of locations.
IndexToken_ReadIn_Locations(token, stream, junk, head) ==
    IF ~head.ok THEN [ok |-> FALSE, token |-> token, st |-> head.st]
    ELSE IndexToken_ReadIn_Parents(token, stream, junk, head,
             ReadFields(stream, head.st, junk,
                        [k \in 1..(6 * head.val[4] + 1) |-> "int"], <<>>))

\* ClIndexToken::ReadIn(token, in).  Result: [ok, token, st].
IndexToken_ReadIn(token, stream, st, junk) ==
    IndexToken_ReadIn_Locations(token, stream, junk,
        ReadFields(stream, st, junk, <<"string", "string", "string", "int">>, <<>>))

\* wxString operator<: code by code, a proper prefix first.
RECURSIVE StrLess(_, _)
StrLess(a, b) ==
    IF b = <<>> THEN FALSE
    ELSE IF a = <<>> THEN TRUE
    ELSE IF Head(a) # Head(b) THEN Head(a) < Head(b)
    ELSE StrLess(Tail(a), Tail(b))

\* The strings of a std::set<wxString> in iteration order.
RECURSIVE SortedStrings(_)
SortedStrings(S) ==
    IF S = {} THEN <<>>
    ELSE LET m == CHOOSE x \in S : \A y \in S \ {x} : StrLess(x, y)
         IN  <<m>> \o SortedStrings(S \ {m})

RECURSIVE WriteTokens(_, _)
WriteTokens(tokens, ids) ==
    IF ids = <<>> THEN <<>>
    ELSE IndexToken_WriteOut(TreeMap_GetValue(tokens, Head(ids)))
            \o WriteTokens(tokens, Tail(ids))

RECURSIVE WriteBuckets(_, _)
WriteBuckets(tokens, keys) ==
    IF keys = <<>> THEN <<>>
    ELSE LET tokenIds == TreeMap_GetIdSet(tokens, Head(keys)) IN
         WriteString(Head(keys)) \o WriteInt(Cardinality(tokenIds))
            \o WriteTokens(tokens, SortedSeq(tokenIds))
            \o WriteBuckets(tokens, Tail(keys))

\* The part of WriteOut up to and including the filenames packet.
IndexDB_WriteHead(db) ==
    MagicBytes \o WriteInt(FormatVersion)
        \o WriteInt(CINDEX_VERSION_MAJOR) \o WriteInt(CINDEX_VERSION_MINOR)
        \o WriteInt(ClTokenPacketType_filenames) \o FilenameDB_WriteOut(db.fileDB)

\* The tokens packet of WriteOut.
IndexDB_WriteTokensPacket(db) ==
    LET tokens == TreeMap_GetKeySet(db.tokens) IN
    WriteInt(ClTokenPacketType_tokens) \o WriteInt(Cardinality(tokens))
        \o WriteBuckets(db.tokens, SortedStrings(tokens))

\* ClTokenIndexDatabase::WriteOut.
IndexDB_WriteOut(db) ==
    IndexDB_WriteHead(db) \o IndexDB_WriteTokensPacket(db) \o WriteInt(0)

\* The inner loop of the tokens packet: tokenCount records read into the
\* one token object of this bucket, each added under identifier.  r is what
\* ClIndexToken::ReadIn gave for record j.
RECURSIVE IndexDB_ReadBucket(_, _, _, _, _, _, _, _)
RECURSIVE IndexDB_ReadBucket_Add(_, _, _, _, _, _, _)
IndexDB_ReadBucket_Add(db, identifier, stream, junk, j, tokenCount, r) ==
    IF ~r.ok THEN [ok |-> FALSE, db |-> db, st |-> r.st]
    ELSE IndexDB_ReadBucket(IndexDB_AddToken(db, identifier, r.token), identifier,
                            r.token, stream, r.st, junk, j + 1, tokenCount)

IndexDB_ReadBucket(db, identifier, token, stream, st, junk, j, tokenCount) ==
    IF j >= tokenCount THEN [ok |-> TRUE, db |-> db, st |-> st]
    ELSE IndexDB_ReadBucket_Add(db, identifier, stream, junk, j, tokenCount,
                                IndexToken_ReadIn(token, stream, st, junk))

\* The outer loop of the tokens packet, from bucket i on: head is the
\* identifier and the token count of the bucket, bucket what its inner
\* loop gave.
RECURSIVE IndexDB_ReadBuckets(_, _, _, _, _, _)
RECURSIVE IndexDB_ReadBuckets_Next(_, _, _, _, _)
IndexDB_ReadBuckets_Next(stream, junk, i, packetCount, bucket) ==
    IF ~bucket.ok THEN bucket
    ELSE IndexDB_ReadBuckets(bucket.db, stream, bucket.st, junk, i + 1, packetCount)

IndexDB_ReadBuckets_Tokens(db, stream, junk, i, packetCount, head) ==
    IF ~head.ok THEN [ok |-> FALSE, db |-> db, st |-> head.st]
    ELSE IndexDB_ReadBuckets_Next(stream, junk, i, packetCount,
             IndexDB_ReadBucket(db, head.val[1], ClIndexToken_Default, stream, head.st,
                                junk, 0, head.val[2]))

IndexDB_ReadBuckets(db, stream, st, junk, i, packetCount) ==
    IF i >= packetCount THEN [ok |-> TRUE, db |-> db, st |-> st]
    ELSE IndexDB_ReadBuckets_Tokens(db, stream, junk, i, packetCount,
             ReadFields(stream, st, junk, <<"string", "int">>, <<>>))

\* A filenames packet that is read but not kept.
IndexDB_ReadFilenamesPacket_Dropped(db, r) == [ok |-> r.ok, db |-> db, st |-> r.st]

\* case ClTokenPacketType_filenames, r what ClFilenameDatabase::ReadIn
\* gave.  Result: [ok, db, st].
IndexDB_ReadFilenamesPacket(db, r) ==
    [ok |-> r.ok, db |-> [db EXCEPT !.fileDB = r.db], st |-> r.st]

\* case ClTokenPacketType_tokens, packetCount what ReadInt gave.
IndexDB_ReadTokensPacket(db, stream, junk, packetCount) ==
    IF ~packetCount.ok THEN [ok |-> FALSE, db |-> db, st |-> packetCount.st]
    ELSE IndexDB_ReadBuckets(db, stream, packetCount.st, junk, 0, packetCount.val)

\* while (in.CanRead()): one packet per round, packetType what ReadInt
\* gave, r what the packet's case gave.  Result: [ok, db].
RECURSIVE IndexDB_ReadPackets(_, _, _, _)
RECURSIVE IndexDB_ReadPackets_Next(_, _, _)
IndexDB_ReadPackets_Next(stream, junk, r) ==
    IF ~r.ok THEN [ok |-> FALSE, db |-> r.db]
    ELSE IndexDB_ReadPackets(r.db, stream, r.st, junk)

IndexDB_ReadPackets_Switch(db, stream, junk, packetType) ==
    IF ~packetType.ok THEN [ok |-> FALSE, db |-> db]
    ELSE IF packetType.val = 0 THEN [ok |-> TRUE, db |-> db]
    ELSE IF packetType.val = ClTokenPacketType_filenames
    THEN IndexDB_ReadPackets_Next(stream, junk,
             IndexDB_ReadFilenamesPacket(db,
                 FilenameDB_ReadIn(db.fileDB, stream, packetType.st, junk)))
    ELSE IF packetType.val = ClTokenPacketType_tokens
    THEN IndexDB_ReadPackets_Next(stream, junk,
             IndexDB_ReadTokensPacket(db, stream, junk, ReadInt(stream, packetType.st)))
    ELSE IndexDB_ReadPackets(db, stream, packetType.st, junk)

IndexDB_ReadPackets(db, stream, st, junk) ==
    IF ~CanRead(st) THEN [ok |-> TRUE, db |-> db]
    ELSE IndexDB_ReadPackets_Switch(db, stream, junk, ReadInt(stream, st))

\* A check of the native library version that looks at the major only.
LibVersionMatches_MajorOnly(major, minor) == major = CINDEX_VERSION_MAJOR

\* major != CINDEX_VERSION_MAJOR and minor != CINDEX_VERSION_MINOR both
\* reject.
LibVersionMatches(major, minor) ==
    major = CINDEX_VERSION_MAJOR /\ minor = CINDEX_VERSION_MINOR

\* ClTokenIndexDatabase::ReadIn from the library version on: lib is what
\* reading major and minor gave; then the database is cleared and the
\* packets are read.
IndexDB_ReadIn_Library(db, stream, junk, lib) ==
    IF ~lib.ok THEN [ok |-> FALSE, db |-> db]
    ELSE IF ~LibVersionMatches(lib.val[1], lib.val[2]) THEN [ok |-> FALSE, db |-> db]
    ELSE IndexDB_ReadPackets(IndexDB_Clear(db), stream, lib.st, junk)

\* ClTokenIndexDatabase::ReadIn from the format version on: version is
\* what ReadInt gave.
IndexDB_ReadIn_Version(db, stream, junk, version) ==
    IF ~version.ok THEN [ok |-> FALSE, db |-> db]
    ELSE IF version.val # FormatVersion THEN [ok |-> FALSE, db |-> db]
    ELSE IndexDB_ReadIn_Library(db, stream, junk,
             ReadFields(stream, version.st, junk, <<"int", "int">>, <<>>))

\* ClTokenIndexDatabase::ReadIn: four bytes are read as the magic tag and
\* not looked at.  Result: [ok, db].
IndexDB_ReadIn(db, stream, junk) ==
    IndexDB_ReadIn_Version(db, stream, junk,
        ReadInt(stream, StreamRead(stream, StreamStart, 4).st))

-----------------------------------------------------------------------------
(* The token index database driven by its operations.  SpecIndex calls     *)
(* UpdateToken and RemoveFileTokens with a wide range of arguments;        *)
(* SpecStream builds smaller databases, writes them out, damages the       *)
(* stream or not, and reads it into a fresh database.                      *)

MaxIndexFiles == 2
MaxTokens == 2
MaxLocations == 2
MaxStreamFiles == 1

\* "/a" and "/b"
IndexPaths == {<<47, 97>>, <<47, 98>>}

RangeA == ClTokenRange(ClTokenPosition(1, 1), ClTokenPosition(1, 2))
RangeB == ClTokenRange(ClTokenPosition(2, 1), ClTokenPosition(2, 3))

\* The override pair ("p", "q") and the scope ("S", "c").
OverrideP == <<<<112>>, <<113>>>>
ScopeS == <<<<83>>, <<99>>>>
NoScope == <<<<>>, <<>>>>

Call(identifier, fileId, USR, tokType, tokenRange, overrideTokenList, scope) ==
    [identifier |-> identifier, displayName |-> identifier, fileId |-> fileId,
     USR |-> USR, tokType |-> tokType, tokenRange |-> tokenRange,
     overrideTokenList |-> overrideTokenList, scope |-> scope]

NoCall == Call(<<>>, wxNOT_FOUND, <<>>, ClTokenType_Unknown, RangeA, <<>>, NoScope)

\* Identifier "f"; the function with USR "u" and the variable with USR "v"
\* that overrides ("p", "q"); two places in each file.
IndexCalls(fileIds) ==
    { Call(<<102>>, f, <<117>>, ClTokenType_FuncDecl, r, <<>>, NoScope) :
        f \in fileIds, r \in {RangeA, RangeB} }
    \cup
    { Call(<<102>>, f, <<118>>, ClTokenType_VarDecl, r, <<OverrideP>>, NoScope) :
        f \in fileIds, r \in {RangeA, RangeB} }

\* A function "f" with USR "u" and a variable "f" with USR "v" that
\* overrides ("p", "q") and lives in scope ("S", "c").
StreamCalls(fileIds) ==
    { Call(<<102>>, f, <<117>>, ClTokenType_FuncDecl, RangeA, <<>>, NoScope) : f \in fileIds }
    \cup
    { Call(<<102>>, f, <<118>>, ClTokenType_VarDecl, RangeB, <<OverrideP>>, ScopeS) :
        f \in fileIds }

IndexIdle ==
    /\ idx = IndexDB_New
    /\ ixCall = [op |-> "none", a |-> NoCall, tokenList |-> {}]
    /\ ixRepeat = FALSE
    /\ ixPhase = "live"
    /\ ixStream = <<>>
    /\ ixTamper = "none"
    /\ ixLoaded = IndexDB_New
    /\ ixReadOk = FALSE

IxFileIds == 0..(TreeMap_GetCount(idx.fileDB) - 1)

IxGetFilenameId(filename, maxFiles) ==
    /\ ixPhase = "live"
    /\ LET r == IndexDB_GetFilenameId(idx, filename) IN
       /\ TreeMap_GetCount(r.db.fileDB) <= maxFiles
       /\ idx' = r.db
    /\ ixCall' = [op |-> "GetFilenameId", a |-> NoCall, tokenList |-> {}]
    /\ ixRepeat' = FALSE
    /\ UNCHANGED <<ixPhase, ixStream, ixTamper, ixLoaded, ixReadOk, notIndex>>

IxUpdateToken(a) ==
    /\ ixPhase = "live"
    /\ LET db == IndexDB_UpdateToken(idx, a.identifier, a.displayName, a.fileId, a.USR,
                                     a.tokType, a.tokenRange, a.overrideTokenList, a.scope)
       IN  /\ TreeMap_GetCount(db.tokens) <= MaxTokens
           /\ \A id \in 0..(TreeMap_GetCount(db.tokens) - 1) :
                 Len(TreeMap_GetValue(db.tokens, id).locationList) <= MaxLocations
           /\ idx' = db
    /\ ixCall' = [op |-> "UpdateToken", a |-> a, tokenList |-> {}]
    /\ ixRepeat' = (ixCall.op = "UpdateToken" /\ ixCall.a = a)
    /\ UNCHANGED <<ixPhase, ixStream, ixTamper, ixLoaded, ixReadOk, notIndex>>

IxRemoveFileTokens(fileId) ==
    /\ ixPhase = "live"
    /\ idx' = IndexDB_RemoveFileTokens(idx, fileId)
    /\ ixCall' = [op |-> "RemoveFileTokens", a |-> [NoCall EXCEPT !.fileId = fileId],
                  tokenList |-> IntTree_GetIdSet(idx.fileTokens, FormatInt(fileId))]
    /\ ixRepeat' = FALSE
    /\ UNCHANGED <<ixPhase, ixStream, ixTamper, ixLoaded, ixReadOk, notIndex>>

IxWriteOut ==
    /\ ixPhase = "live"
    /\ ixStream' = IndexDB_WriteOut(idx)
    /\ ixPhase' = "written"
    /\ ixCall' = [op |-> "WriteOut", a |-> NoCall, tokenList |-> {}]
    /\ ixRepeat' = FALSE
    /\ UNCHANGED <<idx, ixTamper, ixLoaded, ixReadOk, notIndex>>

\* The file got cut short: only its first k bytes are there.
IxTruncate(k) ==
    /\ ixPhase = "written"
    /\ ixTamper = "none"
    /\ k < Len(ixStream)
    /\ ixStream' = SubSeq(ixStream, 1, k)
    /\ ixTamper' = "cut"
    /\ UNCHANGED <<idx, ixCall, ixRepeat, ixPhase, ixLoaded, ixReadOk, notIndex>>

\* The file is one of another build or another format: the magic tag
\* (field 0) or the version, major or minor field (1, 2, 3) holds something
\* else.
IxForeignHeader(field, delta) ==
    /\ ixPhase = "written"
    /\ ixTamper = "none"
    /\ LET at == 4 * field
           old == SubSeq(ixStream, at + 1, at + 4)
           new == IF field = 0 THEN [old EXCEPT ![1] = 88]
                  ELSE WriteInt(DecodeSigned(old) + delta)
       IN  ixStream' = SubSeq(ixStream, 1, at) \o new
                          \o SubSeq(ixStream, at + 5, Len(ixStream))
    /\ ixTamper' = "header"
    /\ UNCHANGED <<idx, ixCall, ixRepeat, ixPhase, ixLoaded, ixReadOk, notIndex>>

IxReadIn ==
    /\ ixPhase = "written"
    /\ \E junk \in JunkBytes :
          \E r \in {IndexDB_ReadIn(IndexDB_New, ixStream, junk)} :
             /\ ixLoaded' = r.db
             /\ ixReadOk' = r.ok
    /\ ixPhase' = "read"
    /\ UNCHANGED <<idx, ixCall, ixRepeat, ixStream, ixTamper, notIndex>>

IndexNext ==
    \/ \E p \in IndexPaths : IxGetFilenameId(p, MaxIndexFiles)
    \/ \E a \in IndexCalls(IxFileIds) : IxUpdateToken(a)
    \/ \E f \in IxFileIds : IxRemoveFileTokens(f)

\* "f" with USR "u", "f" with USR "v" and "g" with USR "u", each as a
\* declaration and as a definition.
MergeCalls(fileIds) ==
    { Call(pair[1], f, pair[2], tokType, RangeA, <<>>, NoScope) :
        pair \in {<<<<102>>, <<117>>>>, <<<<102>>, <<118>>>>, <<<<103>>, <<117>>>>},
        f \in fileIds,
        tokType \in {ClTokenType_FuncDecl,
                     BitOr(ClTokenType_FuncDecl, ClTokenType_DefGroup)} }

MergeNext ==
    \/ \E p \in IndexPaths : IxGetFilenameId(p, MaxStreamFiles)
    \/ \E a \in MergeCalls(IxFileIds) : IxUpdateToken(a)
    \/ \E f \in IxFileIds : IxRemoveFileTokens(f)

StreamNext ==
    \/ \E p \in IndexPaths : IxGetFilenameId(p, MaxStreamFiles)
    \/ \E a \in StreamCalls(IxFileIds) : IxUpdateToken(a)
    \/ \E f \in IxFileIds : IxRemoveFileTokens(f)
    \/ IxWriteOut
    \/ \E k \in 0..(Len(ixStream) - 1) : IxTruncate(k)
    \/ \E field \in 0..3, delta \in {-1, 1} : IxForeignHeader(field, delta)
    \/ IxReadIn

-----------------------------------------------------------------------------
(* A CodeCompleteAtJob (a SyncJob) posted by one thread and run by the     *)
(* worker thread on a clone.  A copy of the job is a record of its own     *)
(* fields; *m_pMutex, *m_pCond and *m_pResults are objects on the heap     *)
(* that every copy points to.                                              *)

\* Completion tokens and diagnostics, as numbers.
ResultLists == {<<>>, <<1>>, <<1, 2>>}
DiagnosticLists == {<<>>, <<7>>, <<7, 8>>}
\* The unsaved-files map the job is given.
Overlay == <<5>>

wxCOND_NO_ERROR == "wxCOND_NO_ERROR"
wxCOND_TIMEOUT == "wxCOND_TIMEOUT"

\* CodeCompleteAtJob(...): m_bCompleted(false), m_Diagnostics().
CodeCompleteAtJob_New(unsavedFiles) ==
    [m_bCompleted |-> FALSE, m_UnsavedFiles |-> unsavedFiles, m_Diagnostics |-> <<>>]

\* CodeCompleteAtJob(const CodeCompleteAtJob&) over SyncJob's implicit copy
\* constructor: every field by value (the pointers too, so the objects they
\* point to are shared).
CodeCompleteAtJob_Copy(other) ==
    [m_bCompleted |-> other.m_bCompleted, m_UnsavedFiles |-> other.m_UnsavedFiles,
     m_Diagnostics |-> other.m_Diagnostics]

SyncIdle ==
    /\ syJob = CodeCompleteAtJob_New(Overlay)
    /\ syClone = CodeCompleteAtJob_New(<<>>)
    /\ syResults = <<>>
    /\ syMutex = "free"
    /\ syWaiting = FALSE
    /\ syWake = "none"
    /\ syPoster = "start"
    /\ syWorker = "idle"
    /\ syRet = "none"
    /\ syRead = [results |-> <<>>, diagnostics |-> <<>>]
    /\ syProduced = [results |-> <<>>, diagnostics |-> <<>>]
    /\ syWhen = "never"
    /\ syReadAfter = FALSE

\* ClangProxy::AppendPendingJob(job): a clone of the job goes onto the
\* worker's queue.
AppendPendingJob ==
    /\ syPoster = "start"
    /\ syClone' = CodeCompleteAtJob_Copy(syJob)
    /\ syWorker' = "queued"
    /\ syPoster' = "posted"
    /\ UNCHANGED <<syJob, syResults, syMutex, syWaiting, syWake, syRet, syRead,
                   syProduced, syWhen, syReadAfter, notSync>>

\* Worker, ClangJob::operator(): Execute starts on the clone.
WorkerExecuteBegin ==
    /\ syWorker = "queued"
    /\ syWorker' = "executing"
    /\ UNCHANGED <<syJob, syClone, syResults, syMutex, syWaiting, syWake, syPoster, syRet,
                   syRead, syProduced, syWhen, syReadAfter, notSync>>

\* Execute ends: the diagnostics are in the clone's m_Diagnostics, its
\* m_UnsavedFiles is cleared, the results are swapped into *m_pResults.
WorkerExecuteEnd ==
    /\ syWorker = "executing"
    /\ \E results \in ResultLists, diagnostics \in DiagnosticLists :
          /\ syClone' = [syClone EXCEPT !.m_Diagnostics = diagnostics,
                                        !.m_UnsavedFiles = <<>>]
          /\ syResults' = results
          /\ syProduced' = [results |-> results, diagnostics |-> diagnostics]
    /\ syWorker' = "executed"
    /\ UNCHANGED <<syJob, syMutex, syWaiting, syWake, syPoster, syRet, syRead, syWhen,
                   syReadAfter, notSync>>

\* SyncJob::Completed on the clone: wxMutexLocker lock(*m_pMutex).
WorkerLock ==
    /\ syWorker = "executed"
    /\ syMutex = "free"
    /\ syMutex' = "worker"
    /\ syWorker' = "locked"
    /\ UNCHANGED <<syJob, syClone, syResults, syWaiting, syWake, syPoster, syRet, syRead,
                   syProduced, syWhen, syReadAfter, notSync>>

\* m_bCompleted = true on the clone; m_pCond->Signal() wakes the thread
\* waiting on the condition, if there is one.
WorkerSignal ==
    /\ syWorker = "locked"
    /\ syClone' = [syClone EXCEPT !.m_bCompleted = TRUE]
    /\ IF syWaiting
       THEN syWaiting' = FALSE /\ syWake' = "signaled"
       ELSE UNCHANGED <<syWaiting, syWake>>
    /\ syWhen' = IF syPoster = "posted" THEN "before the wait"
                 ELSE IF syWaiting THEN "during the wait"
                 ELSE "after the wait"
    /\ syWorker' = "signaled"
    /\ UNCHANGED <<syJob, syResults, syMutex, syPoster, syRet, syRead, syProduced,
                   syReadAfter, notSync>>

\* The locker goes out of scope; EventJob::Completed follows.
WorkerUnlock ==
    /\ syWorker = "signaled"
    /\ syMutex' = "free"
    /\ syWorker' = "done"
    /\ UNCHANGED <<syJob, syClone, syResults, syWaiting, syWake, syPoster, syRet, syRead,
                   syProduced, syWhen, syReadAfter, notSync>>

\* Poster, SyncJob::WaitCompletion on its own copy: the locker.
PosterLock ==
    /\ syPoster = "posted"
    /\ syMutex = "free"
    /\ syMutex' = "poster"
    /\ syPoster' = "locked"
    /\ UNCHANGED <<syJob, syClone, syResults, syWaiting, syWake, syWorker, syRet, syRead,
                   syProduced, syWhen, syReadAfter, notSync>>

\* if (m_bCompleted) return wxCOND_NO_ERROR; else WaitTimeout, which lets
\* go of the mutex and waits.
PosterCheck ==
    /\ syPoster = "locked"
    /\ IF syJob.m_bCompleted
       THEN /\ syRet' = wxCOND_NO_ERROR
            /\ syPoster' = "returned"
            /\ UNCHANGED syWaiting
       ELSE /\ syWaiting' = TRUE
            /\ syPoster' = "waiting"
            /\ UNCHANGED syRet
    /\ syMutex' = "free"
    /\ UNCHANGED <<syJob, syClone, syResults, syWake, syWorker, syRead, syProduced,
                   syWhen, syReadAfter, notSync>>

\* The milliseconds of WaitTimeout are over and no signal has come.
PosterTimeout ==
    /\ syPoster = "waiting"
    /\ syWaiting
    /\ syWaiting' = FALSE
    /\ syWake' = "timeout"
    /\ UNCHANGED <<syJob, syClone, syResults, syMutex, syPoster, syWorker, syRet, syRead,
                   syProduced, syWhen, syReadAfter, notSync>>

\* WaitTimeout takes the mutex again and returns; the locker lets go of it.
PosterWake ==
    /\ syPoster = "waiting"
    /\ syWake # "none"
    /\ syMutex = "free"
    /\ syRet' = IF syWake = "signaled" THEN wxCOND_NO_ERROR ELSE wxCOND_TIMEOUT
    /\ syPoster' = "returned"
    /\ UNCHANGED <<syJob, syClone, syResults, syMutex, syWaiting, syWake, syWorker, syRead,
                   syProduced, syWhen, syReadAfter, notSync>>

\* The poster reads GetResults() and GetDiagnostics() off its own copy.
\* While the worker is inside Execute the read of *m_pResults races with
\* the swap, and anything may be read.
PosterRead ==
    /\ syPoster = "returned"
    /\ \E raced \in ResultLists :
          syRead' = [results |-> IF syWorker = "executing" THEN raced ELSE syResults,
                     diagnostics |-> syJob.m_Diagnostics]
    /\ syReadAfter' = syClone.m_bCompleted
    /\ syPoster' = "read"
    /\ UNCHANGED <<syJob, syClone, syResults, syMutex, syWaiting, syWake, syWorker, syRet,
                   syProduced, syWhen, notSync>>

SyncNext ==
    \/ AppendPendingJob
    \/ WorkerExecuteBegin
    \/ WorkerExecuteEnd
    \/ WorkerLock
    \/ WorkerSignal
    \/ WorkerUnlock
    \/ PosterLock
    \/ PosterCheck
    \/ PosterTimeout
    \/ PosterWake
    \/ PosterRead

-----------------------------------------------------------------------------
(* Jobs and their clones.  A job object is a record of the addresses, in   *)
(* cjCells, of the storage of its members; a copy constructor builds the   *)
(* members of the new object in storage of their own.  An unsaved-files    *)
(* map is a set of (filename, contents) pairs.                             *)

MaxClones == 2

JobKinds ==
    {"CreateTranslationUnitJob", "ReparseJob", "CodeCompleteAtJob", "ReindexFileJob",
     "GetDiagnosticsJob"}
JobFiles == {<<97>>, <<98>>}
JobCommands == {<<>>, <<<<45, 73>>>>}
JobOverlays == {{}, {<<<<97>>, <<120>>>>}}
JobFields == {"m_File", "m_CompileCommand", "m_UnsavedFiles"}

NoJob == [kind |-> "none"]

\* The input members a job class declares, of the three modelled.
JobMembers(kind) ==
    CASE kind \in {"CreateTranslationUnitJob", "ReparseJob"} -> JobFields
      [] kind = "CodeCompleteAtJob" -> {"m_File", "m_UnsavedFiles"}
      [] kind = "ReindexFileJob" -> {"m_File", "m_CompileCommand"}
      [] kind = "GetDiagnosticsJob" -> {"m_File"}

\* DeepCopy(src): ret.push_back(it->c_str()) for every string.
DeepCopy(src) == [i \in 1..Len(src) |-> CStr(src[i])]

\* The loop of the copy constructors over other.m_UnsavedFiles:
\* insert(make_pair(wxString(first.c_str()), wxString(second.c_str()))).
CopyUnsavedFiles(unsavedFiles) == {<<CStr(p[1]), CStr(p[2])>> : p \in unsavedFiles}

\* A job object whose three members live at base + 1 .. base + 3.
JobAt(kind, base) ==
    [kind |-> kind, m_File |-> base + 1, m_CompileCommand |-> base + 2,
     m_UnsavedFiles |-> base + 3]

\* The constructors: m_File(file), m_CompileCommand(DeepCopy(commands)),
\* m_UnsavedFiles(unsavedFiles).  The storage of a member the class does
\* not declare stays empty and unused.  Result: [cells, job].
Job_New(cells, kind, file, commands, unsavedFiles) ==
    [cells |-> cells \o <<file, DeepCopy(commands), unsavedFiles>>,
     job |-> JobAt(kind, Len(cells))]

\* A copy that points at the members of the job it was made from.
Job_Clone_Shared(cells, other) == [cells |-> cells, job |-> other]

\* Clone(): new Job(*this), the copy constructor: m_File(other.m_File),
\* m_CompileCommand(other.m_CompileCommand), and the deep copy loop.
Job_Clone(cells, other) ==
    [cells |-> cells \o <<cells[other.m_File], cells[other.m_CompileCommand],
                          CopyUnsavedFiles(cells[other.m_UnsavedFiles])>>,
     job |-> JobAt(other.kind, Len(cells))]

\* What Execute does to the job's own input fields: m_UnsavedFiles.clear().
Job_Execute(cells, job) == [cells EXCEPT ![job.m_UnsavedFiles] = {}]

CloneIdle ==
    /\ cjCells = <<>>
    /\ cjJob = NoJob
    /\ cjClones = <<>>
    /\ cjGiven = NoJob
    /\ cjLast = <<"none", "none">>

\* The caller constructs the job.
CjConstruct(kind, file, commands, unsavedFiles) ==
    /\ cjJob = NoJob
    /\ "m_CompileCommand" \notin JobMembers(kind) => commands = <<>>
    /\ "m_UnsavedFiles" \notin JobMembers(kind) => unsavedFiles = {}
    /\ \E r \in {Job_New(cjCells, kind, file, commands, unsavedFiles)} :
          /\ cjCells' = r.cells
          /\ cjJob' = r.job
          /\ cjGiven' = [f \in JobFields |-> r.cells[r.job[f]]]
    /\ UNCHANGED <<cjClones, cjLast, notClone>>

\* Clone() of the original (n = 0) or of clone n.
CjClone(n) ==
    /\ cjJob # NoJob
    /\ Len(cjClones) < MaxClones
    /\ n <= Len(cjClones)
    /\ \E r \in {Job_Clone(cjCells, IF n = 0 THEN cjJob ELSE cjClones[n])} :
          /\ cjCells' = r.cells
          /\ cjClones' = Append(cjClones, r.job)
    /\ UNCHANGED <<cjJob, cjGiven, cjLast, notClone>>

\* The worker runs Execute on clone n, for the two classes whose Execute
\* clears the map.
CjExecute(n) ==
    /\ n \in DOMAIN cjClones
    /\ cjClones[n].kind \in {"CreateTranslationUnitJob", "CodeCompleteAtJob"}
    /\ cjCells' = Job_Execute(cjCells, cjClones[n])
    /\ cjLast' = <<"Execute", "m_UnsavedFiles">>
    /\ UNCHANGED <<cjJob, cjClones, cjGiven, notClone>>

\* A public input field of clone n is given another value.
CjAssign(n, field, value) ==
    /\ n \in DOMAIN cjClones
    /\ field \in JobMembers(cjClones[n].kind)
    /\ value # cjCells[cjClones[n][field]]
    /\ cjCells' = [cjCells EXCEPT ![cjClones[n][field]] = value]
    /\ cjLast' = <<"assign", field>>
    /\ UNCHANGED <<cjJob, cjClones, cjGiven, notClone>>

CloneNext ==
    \/ \E k \in JobKinds, f \in JobFiles, c \in JobCommands, u \in JobOverlays :
          CjConstruct(k, f, c, u)
    \/ \E n \in 0..MaxClones : CjClone(n)
    \/ \E n \in 1..MaxClones : CjExecute(n)
    \/ \E n \in 1..MaxClones :
          \/ \E f \in JobFiles : CjAssign(n, "m_File", f)
          \/ \E c \in JobCommands : CjAssign(n, "m_CompileCommand", c)
          \/ \E u \in JobOverlays : CjAssign(n, "m_UnsavedFiles", u)

-----------------------------------------------------------------------------
(* CodeCompleteAtJob::Execute.  A candidate is a record [id, category].    *)
(* The candidates come from ClangProxy::CodeCompleteAt and the refined     *)
(* categories from ClangProxy::RefineTokenType; both are inputs here.      *)

MaxCandidates == 2

\* The categories used to drive Execute: three the switch names and one
\* it does not.
CandidateCategories == {"tcCtorPublic", "tcDtorPublic", "tcFuncPublic", "tcNone"}

\* The candidate lists of length n with ids 0 .. n - 1.
CandidateLists(n) ==
    {[i \in 1..n |-> [id |-> i - 1, category |-> c[i]]] :
        c \in [1..n -> CandidateCategories]}

\* The switch of Execute: whether RefineTokenType is called on a candidate
\* of this category.  A constructor or destructor is passed over by
\* "continue" when m_IncludeCtors is off and falls through to the call
\* otherwise.
CodeCompleteAtJob_Refines(category, includeCtors) ==
    CASE category \in {"tcCtorPublic", "tcDtorPublic"} -> includeCtors
      [] category \in {"tcClass", "tcFuncPublic", "tcVarPublic", "tcEnum", "tcTypedef"} -> TRUE
      [] OTHER -> FALSE

\* The loop of Execute over results, refined[i] being the category
\* RefineTokenType leaves in candidate i; the list is then swapped into
\* *m_pResults.
CodeCompleteAtJob_Execute(results, includeCtors, refined) ==
    [i \in DOMAIN results |->
        IF CodeCompleteAtJob_Refines(results[i].category, includeCtors)
        THEN [results[i] EXCEPT !.category = refined[i]]
        ELSE results[i]]

CompleteIdle ==
    /\ ccPhase = "idle"
    /\ ccIncludeCtors = FALSE
    /\ ccNative = <<>>
    /\ ccResults = <<>>

\* CodeCompleteAtJob(...): m_IncludeCtors(complete_options &
\* ClCodeCompleteOption_IncludeCTors), m_pResults(new vector).
CcConstruct(includeCtors) ==
    /\ ccPhase = "idle"
    /\ ccPhase' = "constructed"
    /\ ccIncludeCtors' = includeCtors
    /\ UNCHANGED <<ccNative, ccResults, notComplete>>

CcExecute(results, refined) ==
    /\ ccPhase = "constructed"
    /\ ccPhase' = "executed"
    /\ ccNative' = results
    /\ ccResults' = CodeCompleteAtJob_Execute(results, ccIncludeCtors, refined)
    /\ UNCHANGED <<ccIncludeCtors, notComplete>>

CompleteNext ==
    \/ \E b \in BOOLEAN : CcConstruct(b)
    \/ \E n \in 0..MaxCandidates :
          \E results \in CandidateLists(n), refined \in [1..n -> CandidateCategories] :
             CcExecute(results, refined)

-----------------------------------------------------------------------------
(* Lookups in the token index database and LookupDefinitionJob::Execute.   *)
(* A result of a position lookup is [found, pos]; pos is what the caller's *)
(* variable holds afterwards.                                              *)

IndexDB_GetFilename(db, fId) == FilenameDB_GetFilename(db.fileDB, fId)

\* ClTokenIndexDatabase::LookupTokenFileList: the files of every location
\* of the tokens under identifier whose mask has all bits of typeMask and
\* whose USR matches, an empty USR on either side matching anything.
IndexDB_LookupTokenFileList(db, identifier, USR, typeMask) ==
    UNION { {loc.fileId : loc \in Range(TreeMap_GetValue(db.tokens, id).locationList)} :
            id \in {i \in TreeMap_GetIdSet(db.tokens, identifier) :
                      /\ BitAnd(TreeMap_GetValue(db.tokens, i).tokenTypeMask, typeMask)
                            = typeMask
                      /\ \/ Len(USR) = 0
                         \/ Len(TreeMap_GetValue(db.tokens, i).USR) = 0
                         \/ USR = TreeMap_GetValue(db.tokens, i).USR} }

\* The locations LookupTokenPosition would stop at, in the order of its
\* loops: ids ascending, the locations of a token in list order.
RECURSIVE IndexDB_PositionMatches(_, _, _, _, _)
IndexDB_PositionMatches(db, ids, fileId, USR, tokenTypeMask) ==
    IF ids = <<>> THEN <<>>
    ELSE LET token == TreeMap_GetValue(db.tokens, Head(ids))
             Here(loc) == /\ BitAnd(loc.tokenType, tokenTypeMask) = tokenTypeMask
                          /\ loc.fileId = fileId
         IN  (IF /\ BitAnd(token.tokenTypeMask, tokenTypeMask) = tokenTypeMask
                 /\ (Len(USR) = 0 \/ USR = token.USR)
              THEN SelectSeq(token.locationList, Here)
              ELSE <<>>)
             \o IndexDB_PositionMatches(db, Tail(ids), fileId, USR, tokenTypeMask)

\* A position lookup that does not look at the file of a location.
IndexDB_LookupTokenPosition_AnyFile(db, identifier, fileId, USR, tokenTypeMask) ==
    LET ids == SortedSeq(TreeMap_GetIdSet(db.tokens, identifier))
        AtFile(n) == IndexDB_PositionMatches(db, ids, n, USR, tokenTypeMask)
        m == AtFile(0) \o AtFile(1)
    IN  IF m = <<>> THEN [found |-> FALSE, pos |-> ClTokenPosition(0, 0)]
        ELSE [found |-> TRUE, pos |-> m[1].range.beginLocation]

\* ClTokenIndexDatabase::LookupTokenPosition (the ClTokenPosition overload).
IndexDB_LookupTokenPosition(db, identifier, fileId, USR, tokenTypeMask) ==
    LET m == IndexDB_PositionMatches(db,
                 SortedSeq(TreeMap_GetIdSet(db.tokens, identifier)), fileId, USR,
                 tokenTypeMask)
    IN  IF m = <<>> THEN [found |-> FALSE, pos |-> ClTokenPosition(0, 0)]
        ELSE [found |-> TRUE, pos |-> m[1].range.beginLocation]

\* ClangProxy::LookupTokenDefinition: the definition lookup against the
\* project index: the first entry under identifier in that file whose type
\* has the definition group bits and whose USR matches, an empty usr
\* asking for any.
ClangProxy_LookupTokenDefinition(db, fileId, identifier, usr) ==
    IndexDB_LookupTokenPosition(db, identifier, fileId, usr, ClTokenType_DefGroup)

\* The first loop of Execute over fileIdList.
RECURSIVE LookupDefinitionJob_DirectStage(_, _, _, _, _)
LookupDefinitionJob_DirectStage(db, fileIds, identifier, USR, locations) ==
    IF fileIds = <<>> THEN locations
    ELSE LookupDefinitionJob_DirectStage(db, Tail(fileIds), identifier, USR,
             IF ClangProxy_LookupTokenDefinition(db, Head(fileIds), identifier, USR).found
             THEN Append(locations,
                         <<IndexDB_GetFilename(db, Head(fileIds)),
                           ClangProxy_LookupTokenDefinition(db, Head(fileIds), identifier,
                                                           USR).pos>>)
             ELSE locations)

\* The inner loop of the override stage over the files of one USR.
RECURSIVE LookupDefinitionJob_OverrideFiles(_, _, _, _, _)
LookupDefinitionJob_OverrideFiles(db, fileIds, identifier, USR, locations) ==
    IF fileIds = <<>> THEN locations
    ELSE LookupDefinitionJob_OverrideFiles(db, Tail(fileIds), identifier, USR,
             IF ClangProxy_LookupTokenDefinition(db, Head(fileIds), identifier, USR).found
             THEN Append(locations,
                         <<IndexDB_GetFilename(db, Head(fileIds)),
                           ClangProxy_LookupTokenDefinition(db, Head(fileIds), identifier,
                                                           USR).pos>>)
             ELSE IF IndexDB_LookupTokenPosition(db, identifier, Head(fileIds), USR,
                                                 ClTokenType_DefGroup).found
             THEN Append(locations,
                         <<IndexDB_GetFilename(db, Head(fileIds)),
                           IndexDB_LookupTokenPosition(db, identifier, Head(fileIds), USR,
                                                       ClTokenType_DefGroup).pos>>)
             ELSE locations)

\* The override stage: the loop over USRList.
RECURSIVE LookupDefinitionJob_OverrideStage(_, _, _, _)
LookupDefinitionJob_OverrideStage(db, USRList, identifier, locations) ==
    IF USRList = <<>> THEN locations
    ELSE LookupDefinitionJob_OverrideStage(db, Tail(USRList), identifier,
             LookupDefinitionJob_OverrideFiles(db,
                 SortedSeq(IndexDB_LookupTokenFileList(db, identifier, Head(USRList),
                                                       ClTokenType_Unknown)),
                 identifier, Head(USRList), locations))

\* What Execute leaves: m_Locations and the stages gone through.
LookupOutcome(locations, loaded, queried, overrides, direct) ==
    [locations |-> locations, loaded |-> loaded, queried |-> queried,
     overrides |-> overrides, direct |-> direct]

\* Index stages that go on to the override stage whatever the direct stage
\* found.
LookupDefinitionJob_IndexStages_AlwaysOverrides(db, native, direct) ==
    LookupOutcome(
        LookupDefinitionJob_OverrideStage(db, native.USRList, native.identifier, direct),
        TRUE, TRUE, TRUE, Len(direct))

\* Execute with the database loaded, direct being m_Locations after the
\* first loop: "if (m_Locations.size() > 0) return;", then the override
\* stage.
LookupDefinitionJob_IndexStages(db, native, direct) ==
    IF Len(direct) > 0 THEN LookupOutcome(direct, TRUE, TRUE, FALSE, Len(direct))
    ELSE LookupOutcome(
             LookupDefinitionJob_OverrideStage(db, native.USRList, native.identifier,
                                               direct),
             TRUE, TRUE, TRUE, 0)

\* Execute after ResolveTokenDefinitionAt: GetTokenAt, the load of the
\* project index, and the index stages.
LookupDefinitionJob_Fallback(db, locations, native) ==
    IF ~native.tokenFound THEN LookupOutcome(locations, FALSE, FALSE, FALSE, 0)
    ELSE IF ~native.loadable THEN LookupOutcome(locations, TRUE, FALSE, FALSE, 0)
    ELSE LookupDefinitionJob_IndexStages(db, native,
             LookupDefinitionJob_DirectStage(db,
                 SortedSeq(IndexDB_LookupTokenFileList(db, native.identifier, native.USR,
                                                       ClTokenType_DefGroup)),
                 native.identifier, native.USR, locations))

\* Execute without the return after a successful resolution.
LookupDefinitionJob_Execute_NoReturn(db, locations, native) ==
    LookupDefinitionJob_Fallback(db,
        IF native.resolved THEN Append(locations, <<native.defFile, native.defPos>>)
        ELSE locations,
        native)

\* LookupDefinitionJob::Execute on a job whose m_Locations is locations.
\* native is what the parser answers: resolved, defFile, defPos
\* (ResolveTokenDefinitionAt), tokenFound, identifier, USR (GetTokenAt),
\* loadable (LoadTokenIndexDatabase) and USRList (GetTokenOverridesAt).
LookupDefinitionJob_Execute(db, locations, native) ==
    IF native.resolved
    THEN LookupOutcome(Append(locations, <<native.defFile, native.defPos>>),
                       FALSE, FALSE, FALSE, 0)
    ELSE LookupDefinitionJob_Fallback(db, locations, native)

\* Identifier "f": the function with USR "u", declared or defined, and its
\* overrider with USR "v", defined.
LookupCalls(fileIds) ==
    { Call(<<102>>, f, <<117>>, ClTokenType_FuncDecl, RangeA, <<>>, NoScope) : f \in fileIds }
    \cup
    { Call(<<102>>, f, USR, BitOr(ClTokenType_FuncDecl, ClTokenType_DefGroup), RangeB,
           <<>>, NoScope) : f \in fileIds, USR \in {<<117>>, <<118>>} }

Native(resolved, defFile, defPos, tokenFound, identifier, USR, loadable, USRList) ==
    [resolved |-> resolved, defFile |-> defFile, defPos |-> defPos,
     tokenFound |-> tokenFound, identifier |-> identifier, USR |-> USR,
     loadable |-> loadable, USRList |-> USRList]

NoNative == Native(FALSE, <<>>, ClTokenPosition(0, 0), FALSE, <<>>, <<>>, FALSE, <<>>)

\* What the parser may answer: a resolved definition of the token "f"
\* with USR "u"; no token at the position; or the token "f" or "g" with
\* USR "u" or none, the project index loadable or not, overridden by "v"
\* or by nothing.
NativeAnswers ==
    { Native(TRUE, f, pos, TRUE, <<102>>, <<117>>, TRUE, <<>>) :
        f \in IndexPaths, pos \in {ClTokenPosition(1, 1), ClTokenPosition(7, 3)} }
    \cup {NoNative}
    \cup { Native(FALSE, <<>>, ClTokenPosition(0, 0), TRUE, identifier, USR, loadable, USRList) :
             identifier \in {<<102>>, <<103>>}, USR \in {<<117>>, <<>>},
             loadable \in BOOLEAN, USRList \in {<<>>, <<<<118>>>>} }

LookupIdle ==
    /\ lkDb = IndexDB_New
    /\ lkPhase = "build"
    /\ lkNative = NoNative
    /\ lkLocations = <<>>
    /\ lkTrace = LookupOutcome(<<>>, FALSE, FALSE, FALSE, 0)

LkGetFilenameId(filename) ==
    /\ lkPhase = "build"
    /\ lkDb' = IndexDB_GetFilenameId(lkDb, filename).db
    /\ lkDb' # lkDb
    /\ UNCHANGED <<lkPhase, lkNative, lkLocations, lkTrace, notLookup>>

LkUpdateToken(a) ==
    /\ lkPhase = "build"
    /\ \E db \in {IndexDB_UpdateToken(lkDb, a.identifier, a.displayName, a.fileId, a.USR,
                                      a.tokType, a.tokenRange, a.overrideTokenList,
                                      a.scope)} :
          /\ db # lkDb
          /\ TreeMap_GetCount(db.tokens) <= MaxTokens
          /\ \A id \in 0..(TreeMap_GetCount(db.tokens) - 1) :
                Len(TreeMap_GetValue(db.tokens, id).locationList) <= MaxLocations
          /\ lkDb' = db
    /\ UNCHANGED <<lkPhase, lkNative, lkLocations, lkTrace, notLookup>>

\* The worker executes a freshly constructed job (m_Locations empty).
LkExecute(native) ==
    /\ lkPhase = "build"
    /\ lkPhase' = "executed"
    /\ lkNative' = native
    /\ \E r \in {LookupDefinitionJob_Execute(lkDb, <<>>, native)} :
          /\ lkLocations' = r.locations
          /\ lkTrace' = r
    /\ UNCHANGED <<lkDb, notLookup>>

LookupNext ==
    \/ \E filename \in IndexPaths : LkGetFilenameId(filename)
    \/ \E a \in LookupCalls(0..(TreeMap_GetCount(lkDb.fileDB) - 1)) : LkUpdateToken(a)
    \/ \E native \in NativeAnswers : LkExecute(native)

-----------------------------------------------------------------------------
(* ClTranslationUnit::ExpandDiagnostic (translationunit.cpp).  A diagnostic *)
(* of the native library is the record of what its accessors answer: a     *)
(* source range is the pair of the columns of its start and end, and       *)
(* extent is the extent of the cursor at the diagnostic's location.        *)

MaxColumn == 2
MaxRanges == 2
MaxFixIts == 1

Columns == 0..MaxColumn
ColumnRanges == Columns \X Columns
ListsUpTo(S, n) == UNION {[1..k -> S] : k \in 0..n}

CXDiagnostic_Severities ==
    {"CXDiagnostic_Ignored", "CXDiagnostic_Note", "CXDiagnostic_Warning",
     "CXDiagnostic_Error", "CXDiagnostic_Fatal"}

\* "warning: ", "error: " and the message "x"
WarningPrefix == <<119, 97, 114, 110, 105, 110, 103, 58, 32>>
ErrorPrefix == <<101, 114, 114, 111, 114, 58, 32>>
DiagTexts == {<<120>>, WarningPrefix \o <<120>>, ErrorPrefix \o <<120>>}

StartsWith(s, prefix) ==
    /\ Len(s) >= Len(prefix)
    /\ SubSeq(s, 1, Len(prefix)) = prefix

Right(s, count) == SubSeq(s, Len(s) - count + 1, Len(s))

\* RangeToColumns: the columns of the spelling locations of the two ends.
RangeToColumns(range) == [rgStart |-> range[1], rgEnd |-> range[2]]

\* The loops over the own ranges and over the fix-it ranges: every range
\* overwrites rgStart and rgEnd, and the loop stops at the first range
\* whose columns differ.
RECURSIVE ExpandDiagnostic_Scan(_, _)
ExpandDiagnostic_Scan(ranges, rg) ==
    IF ranges = <<>> THEN rg
    ELSE IF Head(ranges)[1] # Head(ranges)[2] THEN RangeToColumns(Head(ranges))
    ELSE ExpandDiagnostic_Scan(Tail(ranges), RangeToColumns(Head(ranges)))

ExpandDiagnostic_FixIts(diag, rg) ==
    IF rg.rgStart = rg.rgEnd
    THEN ExpandDiagnostic_Scan([j \in DOMAIN diag.fixits |-> diag.fixits[j].range], rg)
    ELSE rg

ExpandDiagnostic_Cursor(diag, rg) ==
    IF rg.rgEnd = 0 THEN RangeToColumns(diag.extent) ELSE rg

ExpandDiagnostic_Clamp_EndOnly(column, rg) ==
    IF rg.rgEnd < column THEN [rgStart |-> column, rgEnd |-> column] ELSE rg

ExpandDiagnostic_Clamp(column, rg) ==
    IF rg.rgEnd < column \/ rg.rgStart > column
    THEN [rgStart |-> column, rgEnd |-> column]
    ELSE rg

\* rgStart and rgEnd before the bounds check.
ExpandDiagnostic_Found(diag) ==
    ExpandDiagnostic_Cursor(diag,
        ExpandDiagnostic_FixIts(diag,
            ExpandDiagnostic_Scan(diag.ranges, [rgStart |-> 0, rgEnd |-> 0])))

ExpandDiagnostic_Text(diagText) ==
    IF StartsWith(diagText, WarningPrefix) THEN Right(diagText, Len(diagText) - 9)
    ELSE IF StartsWith(diagText, ErrorPrefix) THEN Right(diagText, Len(diagText) - 7)
    ELSE diagText

ExpandDiagnostic_Severity(severity) ==
    CASE severity \in {"CXDiagnostic_Error", "CXDiagnostic_Fatal"} -> "sError"
      [] severity = "CXDiagnostic_Note" -> "sNote"
      [] OTHER -> "sWarning"

ClDiagnosticFixit(text, rgStart, rgEnd) ==
    [text |-> text, range |-> <<rgStart, rgEnd>>]

ClDiagnostic(line, rg, severity, fl, msg, fixitList) ==
    [line |-> line, range |-> <<rg.rgStart, rg.rgEnd>>, severity |-> severity,
     file |-> fl, message |-> msg, fixitList |-> fixitList]

ExpandDiagnostic(diag, filename, inout_diagnostics) ==
    IF diag.null \/ diag.nullLocation THEN inout_diagnostics
    ELSE IF diag.severity \in {"CXDiagnostic_Ignored", "CXDiagnostic_Note"}
    THEN inout_diagnostics
    ELSE IF diag.file # filename THEN inout_diagnostics
    ELSE Append(inout_diagnostics,
                ClDiagnostic(diag.line,
                             ExpandDiagnostic_Clamp(diag.column, ExpandDiagnostic_Found(diag)),
                             ExpandDiagnostic_Severity(diag.severity),
                             diag.file,
                             ExpandDiagnostic_Text(diag.text),
                             [j \in DOMAIN diag.fixits |->
                                ClDiagnosticFixit(diag.fixits[j].text,
                                                  diag.fixits[j].range[1],
                                                  diag.fixits[j].range[2])]))

CXDiagnostic(null, nullLocation, severity, file, column, text, ranges, fixits, extent) ==
    [null |-> null, nullLocation |-> nullLocation, severity |-> severity,
     file |-> file, line |-> 1, column |-> column, text |-> text,
     ranges |-> ranges, fixits |-> fixits, extent |-> extent]

NoDiagnostic ==
    CXDiagnostic(TRUE, FALSE, "CXDiagnostic_Ignored", <<>>, 0, <<>>, <<>>, <<>>, <<0, 0>>)

\* The diagnostics the native library may hand over: a null diagnostic, one
\* without a location, every range data within the bounds under one header,
\* and every header (severity, file, text) over a few range data.
Diagnostics ==
    {NoDiagnostic, [NoDiagnostic EXCEPT !.null = FALSE, !.nullLocation = TRUE]}
    \cup { CXDiagnostic(FALSE, FALSE, "CXDiagnostic_Warning", <<97>>, column,
                        WarningPrefix \o <<120>>, ranges,
                        [j \in DOMAIN fixrs |-> [text |-> <<121>>, range |-> fixrs[j]]],
                        extent) :
             column \in Columns,
             ranges \in ListsUpTo(ColumnRanges, MaxRanges),
             fixrs \in ListsUpTo(ColumnRanges, MaxFixIts),
             extent \in ColumnRanges }
    \cup { CXDiagnostic(FALSE, FALSE, severity, file, column, text, <<>>, <<>>, extent) :
             severity \in CXDiagnostic_Severities, file \in JobFiles,
             column \in Columns, text \in DiagTexts,
             extent \in {<<0, 0>>, <<0, MaxColumn>>} }

DiagFilename == <<97>>

\* What the caller's vector may hold on entry.
DiagLists ==
    {<<>>, <<ClDiagnostic(1, [rgStart |-> 1, rgEnd |-> 1], "sWarning", DiagFilename,
                          <<120>>, <<>>)>>}

DiagIdle ==
    /\ dgPhase = "idle"
    /\ dgDiag = NoDiagnostic
    /\ dgBefore = <<>>
    /\ dgList = <<>>

DgExpand(diag, inout_diagnostics) ==
    /\ dgPhase = "idle"
    /\ dgPhase' = "expanded"
    /\ dgDiag' = diag
    /\ dgBefore' = inout_diagnostics
    /\ dgList' = ExpandDiagnostic(diag, DiagFilename, inout_diagnostics)
    /\ UNCHANGED notDiag

\* One call per behaviour: the inputs are drawn when the call is made.
DiagNext ==
    /\ dgPhase = "idle"
    /\ \E diag \in Diagnostics, inout_diagnostics \in DiagLists :
          DgExpand(diag, inout_diagnostics)

-----------------------------------------------------------------------------
(* HashToken (translationunit.cpp).  An unsigned of 32 bits is the pair of *)
(* its 16-bit halves <<high, low>>, so that no product leaves the range of *)
(* the integers at hand; a completion string is the list of its chunks,    *)
(* each a kind and the text libclang returns as UTF-8.                     *)

MaxChunks == 2
MaxChunkLen == 2

Half == 65536

Word(high, low) == <<high, low>>

\* 2166136261u = 0x811C9DC5 and 16777619u = 0x01000193.
FNV_Basis == Word(33052, 40389)
FNV_Prime == Word(256, 403)

\* Bitwise exclusive or of two numbers below 65536.
RECURSIVE BitXor(_, _)
BitXor(a, b) ==
    IF a = 0 THEN b
    ELSE IF b = 0 THEN a
    ELSE ((a + b) % 2) + 2 * BitXor(a \div 2, b \div 2)

WordXor(x, y) == Word(BitXor(x[1], y[1]), BitXor(x[2], y[2]))

\* Unsigned multiplication modulo 2^32.
WordMul(x, y) ==
    Word((x[1] * y[2] + x[2] * y[1] + ((x[2] * y[2]) \div Half)) % Half,
         (x[2] * y[2]) % Half)

\* The byte read through a const char*, promoted to int and converted to
\* unsigned for "hVal ^= *pCh": a plain char that is signed sign-extends the
\* bytes from 0x80 on.
CharAsUnsigned(byte, charIsSigned) ==
    IF charIsSigned /\ byte >= 128 THEN Word(65535, 65280 + byte)
    ELSE Word(0, byte)

\* The loop over one chunk, up to its terminating NUL.
RECURSIVE HashToken_Chunk(_, _, _)
HashToken_Chunk(hVal, pCh, charIsSigned) ==
    IF pCh = <<>> \/ Head(pCh) = 0 THEN hVal
    ELSE HashToken_Chunk(WordMul(WordXor(hVal, CharAsUnsigned(Head(pCh), charIsSigned)),
                                 FNV_Prime),
                         Tail(pCh), charIsSigned)

HashToken_Identifier(pCh) ==
    FromUTF8(IF pCh # <<>> /\ Head(pCh) = 126 THEN Tail(pCh) ELSE pCh)

RECURSIVE HashToken_Chunks(_, _, _, _)
HashToken_Chunks(hVal, identifier, token, charIsSigned) ==
    IF token = <<>> THEN [hVal |-> hVal, identifier |-> identifier]
    ELSE HashToken_Chunks(
             HashToken_Chunk(hVal, Utf8Encode(Head(token).text), charIsSigned),
             IF Head(token).kind = "CXCompletionChunk_TypedText"
             THEN HashToken_Identifier(Utf8Encode(Head(token).text))
             ELSE identifier,
             Tail(token), charIsSigned)

HashToken(token, identifier, charIsSigned) ==
    HashToken_Chunks(FNV_Basis, identifier, token, charIsSigned)

\* 'f', '~' and U+00E9, whose UTF-8 form is the bytes 0xC3 0xA9.
HashChars == {102, 126, 233}

CompletionChunks ==
    [kind : {"CXCompletionChunk_TypedText", "CXCompletionChunk_Text"},
     text : ListsUpTo(HashChars, MaxChunkLen)]

CompletionStrings == ListsUpTo(CompletionChunks, MaxChunks)

HashIdle ==
    /\ hsPhase = "idle"
    /\ hsToken = <<>>
    /\ hsSigned = FALSE
    /\ hsHash = FNV_Basis
    /\ hsIdentifier = <<>>

HsHashToken(token, charIsSigned) ==
    /\ hsPhase = "idle"
    /\ hsPhase' = "hashed"
    /\ hsToken' = token
    /\ hsSigned' = charIsSigned
    /\ \E r \in {HashToken(token, <<>>, charIsSigned)} :
          /\ hsHash' = r.hVal
          /\ hsIdentifier' = r.identifier
    /\ UNCHANGED notHash

\* One call per behaviour; whether plain char is signed is the build's choice.
HashNext ==
    /\ hsPhase = "idle"
    /\ \E token \in CompletionStrings, charIsSigned \in BOOLEAN :
          HsHashToken(token, charIsSigned)

-----------------------------------------------------------------------------
(* ClTranslationUnit (translationunit.cpp) over the native library.  The   *)
(* library holds the live translation units, each with the time it was     *)
(* last (re)parsed, and the live completion results, each with the unit    *)
(* and the parse it was computed against.  A handle or pointer is the time *)
(* of the call that created it; m_FunctionScopes, which these calls only   *)
(* clear, is left out.                                                     *)

nullptr == 0

MaxCalls == 4
MaxResults == 1

ClTranslationUnit_New ==
    [m_FileId |-> -1, m_Files |-> <<>>, m_ClTranslUnit |-> nullptr,
     m_LastCC |-> nullptr, m_LastPos |-> ClTokenPosition(-1, -1), m_LastParsed |-> 0]

\* What a call leaves: the object, the library, the native functions called
\* in order, the returned value, whether a parse failed or succeeded, and
\* the caller's output arguments.
Done(unit, lib, calls, ret, outcome, out) ==
    [unit |-> unit, lib |-> lib, calls |-> calls, ret |-> ret,
     outcome |-> outcome, out |-> out]

clang_disposeCodeCompleteResults(lib, results) ==
    [lib EXCEPT !.results = {r \in @ : r.ptr # results}]

clang_disposeTranslationUnit(lib, handle) ==
    [lib EXCEPT !.units = {u \in @ : u[1] # handle}]

\* The parse time the library holds for a live unit.
ParsedAt(lib, handle) == (CHOOSE u \in lib.units : u[1] = handle)[2]

\* Parse from "if (filename.length() != 0)" on; parsed and ret are what
\* clang_parseTranslationUnit and clang_reparseTranslationUnit answer.
ClTranslationUnit_Parse_Native(unit, lib, now, filename, parsed, ret) ==
    IF Len(filename) = 0 THEN Done(unit, lib, <<>>, nullptr, "none", <<>>)
    ELSE IF ~parsed
    THEN Done(unit, lib, <<"clang_parseTranslationUnit">>, nullptr, "failed", <<>>)
    ELSE IF ret # 0
    THEN Done(unit, lib,
              <<"clang_parseTranslationUnit", "clang_reparseTranslationUnit",
                "clang_disposeTranslationUnit">>, nullptr, "failed", <<>>)
    ELSE Done([unit EXCEPT !.m_ClTranslUnit = now],
              [lib EXCEPT !.units = @ \cup {<<now, now>>}],
              <<"clang_parseTranslationUnit", "clang_reparseTranslationUnit">>,
              nullptr, "ok", <<>>)

ClTranslationUnit_Parse(unit, lib, now, filename, fileId, parsed, ret) ==
    ClTranslationUnit_Parse_Native(
        [unit EXCEPT !.m_LastCC = nullptr, !.m_ClTranslUnit = nullptr,
                     !.m_FileId = fileId, !.m_Files = Append(@, fileId),
                     !.m_LastParsed = now],
        clang_disposeTranslationUnit(
            clang_disposeCodeCompleteResults(lib, unit.m_LastCC), unit.m_ClTranslUnit),
        now, filename, parsed, ret)

ClTranslationUnit_Reparse_KeepsHandle(unit, lib, now, ret) ==
    IF unit.m_ClTranslUnit = nullptr THEN Done(unit, lib, <<>>, nullptr, "none", <<>>)
    ELSE IF ret # 0
    THEN Done(unit, clang_disposeTranslationUnit(lib, unit.m_ClTranslUnit),
              <<"clang_reparseTranslationUnit", "clang_disposeTranslationUnit">>,
              nullptr, "failed", <<>>)
    ELSE Done([unit EXCEPT !.m_LastCC = nullptr, !.m_LastParsed = now],
              [units |-> {u \in lib.units : u[1] # unit.m_ClTranslUnit}
                            \cup {<<unit.m_ClTranslUnit, now>>},
               results |-> {r \in lib.results : r.ptr # unit.m_LastCC}],
              <<"clang_reparseTranslationUnit">>, nullptr, "ok", <<>>)

\* A failed reparse disposes the unit and returns before m_LastCC is looked
\* at; a successful one disposes the cached results.
ClTranslationUnit_Reparse(unit, lib, now, ret) ==
    IF unit.m_ClTranslUnit = nullptr THEN Done(unit, lib, <<>>, nullptr, "none", <<>>)
    ELSE IF ret # 0
    THEN Done([unit EXCEPT !.m_ClTranslUnit = nullptr],
              clang_disposeTranslationUnit(lib, unit.m_ClTranslUnit),
              <<"clang_reparseTranslationUnit", "clang_disposeTranslationUnit">>,
              nullptr, "failed", <<>>)
    ELSE Done([unit EXCEPT !.m_LastCC = nullptr, !.m_LastParsed = now],
              [units |-> {u \in lib.units : u[1] # unit.m_ClTranslUnit}
                            \cup {<<unit.m_ClTranslUnit, now>>},
               results |-> {r \in lib.results : r.ptr # unit.m_LastCC}],
              <<"clang_reparseTranslationUnit">>, nullptr, "ok", <<>>)

\* numResults is what clang_codeCompleteAt answers: -1 for no results
\* object, else its NumResults.  The diagnostics of the results are expanded
\* into a local list that is dropped.
ClTranslationUnit_CodeCompleteAt(unit, lib, now, complete_location, numResults) ==
    IF unit.m_ClTranslUnit = nullptr THEN Done(unit, lib, <<>>, nullptr, "none", <<>>)
    ELSE IF numResults < 0
    THEN Done([unit EXCEPT !.m_LastCC = nullptr, !.m_LastPos = complete_location],
              clang_disposeCodeCompleteResults(lib, unit.m_LastCC),
              <<"clang_codeCompleteAt">>, nullptr, "none", <<>>)
    ELSE Done([unit EXCEPT !.m_LastCC = now, !.m_LastPos = complete_location],
              [units |-> lib.units,
               results |-> {r \in lib.results : r.ptr # unit.m_LastCC}
                              \cup {[ptr |-> now, unit |-> unit.m_ClTranslUnit,
                                     parsedAt |-> ParsedAt(lib, unit.m_ClTranslUnit),
                                     NumResults |-> numResults]}],
              <<"clang_codeCompleteAt", "clang_codeCompleteGetNumDiagnostics">>,
              now, "none", <<>>)

\* GetCCResult: nullptr, or the index-th element of m_LastCC->Results,
\* written index + 1.
ClTranslationUnit_GetCCResult(unit, lib, index) ==
    IF /\ unit.m_LastCC # nullptr
       /\ \E r \in lib.results : r.ptr = unit.m_LastCC /\ index < r.NumResults
    THEN index + 1
    ELSE nullptr

\* cursor is what clang_getCursor answers: nullptr for the null cursor.
ClTranslationUnit_GetTokenAt(unit, lib, cursor) ==
    IF unit.m_ClTranslUnit = nullptr
    THEN Done(unit, lib, <<"clang_getNullCursor">>, nullptr, "none", <<>>)
    ELSE Done(unit, lib, <<"clang_getFile", "clang_getLocation", "clang_getCursor">>,
              cursor, "none", <<>>)

\* included are the files the inclusion visitor pushes, visited the tokens
\* the AST visitor stores and the function scopes it collects; the result of
\* std::sort and std::unique leave the distinct values in ascending order
\* at the front; the result of std::unique is not used to erase, so the list
\* keeps its length and tail is what is left behind the distinct values.
ClTranslationUnit_ProcessAllTokens(unit, lib, out, included, visited, tail) ==
    IF unit.m_ClTranslUnit = nullptr THEN Done(unit, lib, <<>>, nullptr, "none", out)
    ELSE Done(unit, lib,
              <<"clang_getInclusions", "clang_getTranslationUnitCursor",
                "clang_visitChildren">>,
              nullptr, "none",
              [includeFileList |->
                   SortedSeq(Range(out.includeFileList \o included
                                       \o <<unit.m_FileId>>)) \o tail,
               functionScopes |-> visited,
               database |-> out.database \cup visited])

RECURSIVE ExpandDiagnosticSet(_, _, _)
ExpandDiagnosticSet(diagSet, filename, diagnostics) ==
    IF diagSet = <<>> THEN diagnostics
    ELSE ExpandDiagnosticSet(Tail(diagSet), filename,
                             ExpandDiagnostic(Head(diagSet), filename, diagnostics))

ClTranslationUnit_GetDiagnostics(unit, lib, filename, diagnostics, diagSet) ==
    IF unit.m_ClTranslUnit = nullptr
    THEN Done(unit, lib, <<>>, nullptr, "none", diagnostics)
    ELSE Done(unit, lib,
              <<"clang_getDiagnosticSetFromTU", "clang_disposeDiagnosticSet">>,
              nullptr, "none", ExpandDiagnosticSet(diagSet, filename, diagnostics))

UnitFileIds == {0, 1}
UnitFilenames == {<<>>, <<97>>}
UnitPosition == ClTokenPosition(1, 1)
UnitOut == [includeFileList |-> <<>>, functionScopes |-> {}, database |-> {}]
UnitDiagnosticSets ==
    {<<>>,
     <<CXDiagnostic(FALSE, FALSE, "CXDiagnostic_Error", <<97>>, 1,
                    ErrorPrefix \o <<120>>, <<<<1, 2>>>>, <<>>, <<0, 0>>)>>}

UnitIdle ==
    /\ tuUnit = ClTranslationUnit_New
    /\ tuLib = [units |-> {}, results |-> {}]
    /\ tuNow = 0
    /\ tuFailed = FALSE
    /\ tuLast = [op |-> "none", failedBefore |-> FALSE, calls |-> <<>>,
                 ret |-> nullptr, before |-> <<>>, after |-> <<>>]

\* The bookkeeping every call shares: r is what the call left.
UnitCalled(op, before, r) ==
    /\ tuNow' = tuNow + 1
    /\ tuUnit' = r.unit
    /\ tuLib' = r.lib
    /\ tuFailed' = CASE r.outcome = "failed" -> TRUE
                     [] r.outcome = "ok" -> FALSE
                     [] OTHER -> tuFailed
    /\ tuLast' = [op |-> op, failedBefore |-> tuFailed, calls |-> r.calls,
                  ret |-> r.ret, before |-> before, after |-> r.out]
    /\ UNCHANGED notUnit

TuParse(filename, fileId, parsed, ret) ==
    /\ tuNow < MaxCalls
    /\ UnitCalled("Parse", <<>>,
                  ClTranslationUnit_Parse(tuUnit, tuLib, tuNow + 1, filename, fileId,
                                          parsed, ret))

TuReparse(ret) ==
    /\ tuNow < MaxCalls
    /\ UnitCalled("Reparse", <<>>, ClTranslationUnit_Reparse(tuUnit, tuLib, tuNow + 1, ret))

TuCodeCompleteAt(numResults) ==
    /\ tuNow < MaxCalls
    /\ UnitCalled("CodeCompleteAt", <<>>,
                  ClTranslationUnit_CodeCompleteAt(tuUnit, tuLib, tuNow + 1, UnitPosition,
                                                   numResults))

TuGetCCResult(index) ==
    /\ tuNow < MaxCalls
    /\ UnitCalled("GetCCResult", <<>>,
                  Done(tuUnit, tuLib, <<>>,
                       ClTranslationUnit_GetCCResult(tuUnit, tuLib, index), "none", <<>>))

TuGetTokenAt(cursor) ==
    /\ tuNow < MaxCalls
    /\ UnitCalled("GetTokenAt", <<>>, ClTranslationUnit_GetTokenAt(tuUnit, tuLib, cursor))

TuProcessAllTokens(included, visited, tail) ==
    /\ tuNow < MaxCalls
    /\ tuUnit.m_ClTranslUnit # nullptr =>
          Len(tail) = Len(included) + 1
                        - Cardinality(Range(included) \cup {tuUnit.m_FileId})
    /\ tuUnit.m_ClTranslUnit = nullptr => tail = <<>>
    /\ UnitCalled("ProcessAllTokens", UnitOut,
                  ClTranslationUnit_ProcessAllTokens(tuUnit, tuLib, UnitOut, included,
                                                     visited, tail))

TuGetDiagnostics(diagSet) ==
    /\ tuNow < MaxCalls
    /\ UnitCalled("GetDiagnostics", <<>>,
                  ClTranslationUnit_GetDiagnostics(tuUnit, tuLib, <<97>>, <<>>, diagSet))

UnitNext ==
    \/ \E filename \in UnitFilenames, fileId \in UnitFileIds,
          parsed \in BOOLEAN, ret \in {0, 1} :
          TuParse(filename, fileId, parsed, ret)
    \/ \E ret \in {0, 1} : TuReparse(ret)
    \/ \E numResults \in -1..MaxResults : TuCodeCompleteAt(numResults)
    \/ \E index \in 0..MaxResults : TuGetCCResult(index)
    \/ \E cursor \in {nullptr, 1} : TuGetTokenAt(cursor)
    \/ \E included \in ListsUpTo(UnitFileIds, 1), visited \in {{}, {"f"}},
          tail \in ListsUpTo(UnitFileIds, 1) :
          TuProcessAllTokens(included, visited, tail)
    \/ \E diagSet \in UnitDiagnosticSets : TuGetDiagnostics(diagSet)

-----------------------------------------------------------------------------
(* ClangDiagnostics: the diagnostics component (clangdiagnostics.cpp)      *)

MaxEditors == 2
MaxUiLine == 2
MaxUiEvents == 3
MaxAttach == 1
LineLength == 3
LinesOnScreen == 1

idGotoNextDiagnostic == 1
idGotoPrevDiagnostic == 2

UiFiles == 1..MaxEditors
UiUnits == -1..1
\* Lines of a control are numbered from 0, lines of a diagnostic from 1.
UiLines == 0..(MaxUiLine - 1)
UiPositions == 0..(MaxUiLine * LineLength - 1)
warningIndicator == 0
errorIndicator == 15

\* The file name of an editor: "a" for file 1, "b" for file 2.
UiFilename(fl) == <<96 + fl>>

\* Every line of every document reads "ab ": a word and a blank.
IsWordChar(pos) == pos \in UiPositions /\ pos % LineLength # LineLength - 1
PositionFromLine(line) == line * LineLength

RECURSIVE WordEndPosition(_)
WordEndPosition(pos) ==
    IF IsWordChar(pos) THEN WordEndPosition(pos + 1) ELSE pos

RECURSIVE WordStartPosition(_)
WordStartPosition(pos) ==
    IF IsWordChar(pos - 1) THEN WordStartPosition(pos - 1) ELSE pos

\* wxString::Contains: sub occurs somewhere in s.
Contains(s, sub) ==
    \E i \in 0..(Len(s) - Len(sub)) : SubSeq(s, i + 1, i + Len(sub)) = sub

NoAnnotation == [text |-> <<>>, style |-> 0]

Stc_New ==
    [annotation |-> [l \in UiLines |-> NoAnnotation], indicators |-> {},
     currentLine |-> 0, firstVisible |-> 0]

AnnotationClearAll(stc) ==
    [stc EXCEPT !.annotation = [l \in UiLines |-> NoAnnotation]]

AnnotationClearLine(stc, line) ==
    IF line \in UiLines THEN [stc EXCEPT !.annotation[line] = NoAnnotation]
    ELSE stc

IndicatorClearRange(stc, indicator) ==
    [stc EXCEPT !.indicators = {c \in @ : c[1] # indicator}]

IndicatorFillRange(stc, indicator, pos, range) ==
    [stc EXCEPT !.indicators =
        @ \cup {<<indicator, q>> : q \in {q \in UiPositions :
                                            q >= pos /\ q < pos + range}}]

\* GotoLine moves the caret and scrolls just far enough to show it.
GotoLine(stc, line) ==
    [stc EXCEPT !.currentLine = line,
                !.firstVisible =
                    IF line < @ THEN line
                    ELSE IF line >= @ + LinesOnScreen
                         THEN line - LinesOnScreen + 1
                    ELSE @]

ScrollLines(stc, lines) ==
    [stc EXCEPT !.firstVisible =
        IF @ + lines < 0 THEN 0
        ELSE IF @ + lines > MaxUiLine - LinesOnScreen
             THEN MaxUiLine - LinesOnScreen
        ELSE @ + lines]

\* The line OnGotoNextDiagnostic jumps to: the first cached diagnostic
\* below the caret, or -1 when the loop ends without a jump.
RECURSIVE OnGotoNextDiagnostic_Find(_, _, _)
OnGotoNextDiagnostic_Find(diagnostics, k, currentLine) ==
    IF k > Len(diagnostics) THEN -1
    ELSE IF diagnostics[k].line - 1 > currentLine
         THEN diagnostics[k].line - 1
    ELSE OnGotoNextDiagnostic_Find(diagnostics, k + 1, currentLine)

OnGotoNextDiagnostic(stc, diagnostics) ==
    LET line == OnGotoNextDiagnostic_Find(diagnostics, 1, stc.currentLine)
    IN  IF line = -1 THEN stc ELSE GotoLine(stc, line)

RECURSIVE OnGotoPrevDiagnostic_Find(_, _, _, _)
OnGotoPrevDiagnostic_Find(diagnostics, k, currentLine, prevLine) ==
    IF k > Len(diagnostics) THEN prevLine
    ELSE IF diagnostics[k].line - 1 < currentLine
         THEN OnGotoPrevDiagnostic_Find(diagnostics, k + 1, currentLine,
                                        diagnostics[k].line - 1)
    ELSE prevLine

OnGotoPrevDiagnostic(stc, diagnostics) ==
    LET prevLine ==
            OnGotoPrevDiagnostic_Find(diagnostics, 1, stc.currentLine, -1)
    IN  IF prevLine < 0 THEN stc
        ELSE IF prevLine < stc.firstVisible
             THEN ScrollLines(GotoLine(stc, prevLine), -(LinesOnScreen \div 2))
        ELSE GotoLine(stc, prevLine)

\* The annotation step of the drawing loop for one diagnostic of the file.
OnDiagnostics_Annotate(stc, dg, lastLine, update, cfg) ==
    LET line == dg.line - 1
        cleared == IF update /\ lastLine # line
                   THEN AnnotationClearLine(stc, line) ELSE stc
        old == cleared.annotation[line].text
        str == IF old # <<>> THEN old \o <<10>> ELSE old
        style == CASE dg.severity = "sWarning" /\ cfg.show_warning -> 51
                   [] dg.severity = "sError" /\ cfg.show_error -> 52
                   [] OTHER -> 0
    IN  IF cfg.show_inline /\ ~Contains(str, dg.message) /\ style # 0
        THEN [cleared EXCEPT !.annotation[line] =
                 [text |-> str \o dg.message, style |-> style]]
        ELSE cleared

\* The indicator step: where and how long, after the word fallbacks.
OnDiagnostics_Extent(dg) ==
    LET pos == PositionFromLine(dg.line - 1) + dg.range[1] - 1
        range == dg.range[2] - dg.range[1]
    IN  IF range # 0 THEN <<pos, range>>
        ELSE IF WordEndPosition(pos) - pos # 0
             THEN <<pos, WordEndPosition(pos) - pos>>
        ELSE <<WordStartPosition(pos),
               WordEndPosition(WordStartPosition(pos)) - WordStartPosition(pos)>>

RECURSIVE OnDiagnostics_Loop(_, _, _, _, _, _, _)
OnDiagnostics_Loop(stc, diagnostics, k, lastLine, update, cfg, filename) ==
    IF k > Len(diagnostics) THEN stc
    ELSE LET dg == diagnostics[k]
             annotated == OnDiagnostics_Annotate(stc, dg, lastLine, update, cfg)
             extent == OnDiagnostics_Extent(dg)
             overlaps == /\ k > 1
                         /\ dg.line = diagnostics[k - 1].line
                         /\ dg.range[1] <= diagnostics[k - 1].range[2]
         IN  IF dg.file # filename
             THEN OnDiagnostics_Loop(stc, diagnostics, k + 1, lastLine,
                                     update, cfg, filename)
             ELSE IF dg.severity = "sError"
             THEN OnDiagnostics_Loop(
                      IndicatorFillRange(annotated, errorIndicator,
                                         extent[1], extent[2]),
                      diagnostics, k + 1, dg.line - 1, update, cfg, filename)
             ELSE IF overlaps
             THEN OnDiagnostics_Loop(annotated, diagnostics, k + 1, lastLine,
                                     update, cfg, filename)
             ELSE OnDiagnostics_Loop(
                      IndicatorFillRange(annotated, warningIndicator,
                                         extent[1], extent[2]),
                      diagnostics, k + 1, dg.line - 1, update, cfg, filename)

\* What OnDiagnostics leaves of the active editor's control once the event
\* has passed the translation-unit comparison.
OnDiagnostics_Draw(stc, event, cfg, filename) ==
    LET update == event.location[1] # 0 /\ event.location[2] # 0
        cleared ==
            IF update THEN AnnotationClearLine(stc, event.location[1] - 1)
            ELSE IndicatorClearRange(
                     IndicatorClearRange(AnnotationClearAll(stc),
                                         warningIndicator), errorIndicator)
        inlined == IF cfg.show_inline THEN cleared
                   ELSE AnnotationClearAll(cleared)
    IN  OnDiagnostics_Loop(inlined, event.diagnostics, 1, 0, update, cfg,
                           filename)

\* GetCurrentTranslationUnitId: the held id, looked up again through the
\* plugin (which answers resolved) when it is -1 and an editor is active.
GetCurrentTranslationUnitId(held, active, resolved) ==
    IF held = -1 THEN (IF active = 0 THEN -1 ELSE resolved) ELSE held

\* A comparison that lets every event through.
OnDiagnostics_Accepts_Always(event, current) == TRUE

OnDiagnostics_Accepts(event, current) == event.id = current

\* wxEvtHandler::Disconnect(id): the first matching entry goes.
RECURSIVE Disconnect(_, _)
Disconnect(table, id) ==
    IF table = <<>> THEN table
    ELSE IF Head(table) = id THEN Tail(table)
    ELSE <<Head(table)>> \o Disconnect(Tail(table), id)

OnAttach_Connected(table) ==
    <<idGotoPrevDiagnostic, idGotoNextDiagnostic>> \o table

OnRelease_Connected(table) ==
    Disconnect(Disconnect(table, idGotoPrevDiagnostic), idGotoPrevDiagnostic)

UiDiagnostic(line, range, severity, fl, message) ==
    [line |-> line, range |-> range, severity |-> severity,
     file |-> UiFilename(fl), message |-> message, fixitList |-> <<>>]

\* The lists an event carries: single diagnostics of each severity, extent
\* and file, and pairs in file 1 that overlap, repeat a message or differ
\* in severity.
UiDiagnosticLists ==
    {<<>>}
    \cup {<<UiDiagnostic(1, range, "sWarning", 1, <<120>>)>> :
            range \in {<<1, 1>>, <<1, 2>>, <<3, 3>>}}
    \cup {<<UiDiagnostic(MaxUiLine, <<1, 2>>, severity, fl, <<120>>)>> :
            severity \in {"sError", "sNote"}, fl \in UiFiles}
    \cup {<<UiDiagnostic(1, <<1, 2>>, sev, 1, <<120>>),
            UiDiagnostic(line, <<2, 3>>, "sWarning", 1, message)>> :
            sev \in {"sWarning", "sError"}, line \in 1..MaxUiLine,
            message \in {<<120>>, <<121>>}}

UiLocations == {<<0, 0>>, <<1, 1>>, <<2, 0>>}

\* The three settings the handler reads; absent settings read as true.
UiConfig(i, w, e) == [show_inline |-> i, show_warning |-> w, show_error |-> e]

UiConfigs ==
    {UiConfig(TRUE, TRUE, TRUE), UiConfig(FALSE, TRUE, TRUE),
     UiConfig(TRUE, FALSE, TRUE), UiConfig(TRUE, TRUE, FALSE)}

UiEvents ==
    {[id |-> id, location |-> location, diagnostics |-> diagnostics] :
        id \in UiUnits, location \in UiLocations,
        diagnostics \in UiDiagnosticLists}

\* The answers the plugin may give when the handler asks it: it is asked
\* only while no id is held and an editor is active.
UiResolved(held, active) ==
    IF held = -1 /\ active # 0 THEN UiUnits ELSE {-1}

UiIdle ==
    /\ uiPlugin = nullptr
    /\ uiConnected = <<>>
    /\ uiManagerSinks = <<>>
    /\ uiPluginSinks = <<>>
    /\ uiActive = 0
    /\ m_TranslUnitId = -1
    /\ m_Diagnostics = <<>>
    /\ uiStc = [fl \in UiFiles |-> Stc_New]
    /\ uiNow = 0
    /\ uiLast = [op |-> "none", id |-> -1, current |-> -1, active |-> 0,
                 attaches |-> 0]

\* The bookkeeping every delivered event shares: id is the unit the event
\* names and current the unit the handler compared it with.
UiDelivered(op, id, current) ==
    /\ uiNow' = uiNow + 1
    /\ uiLast' = [uiLast EXCEPT !.op = op, !.id = id, !.current = current,
                                !.active = uiActive]
    /\ UNCHANGED notUi

UiOnAttach ==
    /\ uiPlugin = nullptr
    /\ uiLast.attaches < MaxAttach
    /\ uiPlugin' = 1
    /\ uiManagerSinks' =
           uiManagerSinks \o <<"cbEVT_EDITOR_ACTIVATED", "cbEVT_EDITOR_CLOSE">>
    /\ uiConnected' = OnAttach_Connected(uiConnected)
    /\ uiPluginSinks' = Append(uiPluginSinks, "clEVT_DIAGNOSTICS_UPDATED")
    /\ uiLast' = [uiLast EXCEPT !.op = "OnAttach", !.id = -1,
                                !.current = -1, !.active = uiActive,
                                !.attaches = @ + 1]
    /\ UNCHANGED <<uiActive, m_TranslUnitId, m_Diagnostics, uiStc, uiNow>>
    /\ UNCHANGED notUi

\* ClangPluginComponent::OnRelease clears m_pClangPlugin; whether it also
\* takes the component's sinks off the plugin is the base class's choice.
UiOnRelease(baseRemoves) ==
    /\ uiPlugin # nullptr
    /\ uiConnected' = OnRelease_Connected(uiConnected)
    /\ uiManagerSinks' = <<>>
    /\ uiPluginSinks' = IF baseRemoves THEN <<>> ELSE uiPluginSinks
    /\ uiPlugin' = nullptr
    /\ uiLast' = [uiLast EXCEPT !.op = "OnRelease", !.id = -1,
                                !.current = -1, !.active = uiActive]
    /\ UNCHANGED <<uiActive, m_TranslUnitId, m_Diagnostics, uiStc, uiNow>>
    /\ UNCHANGED notUi

\* The host activates editor (0: one that is not a built-in editor) and
\* tells the component; the plugin answers resolved for its file.
UiOnEditorActivate(editor, resolved) ==
    /\ uiNow < MaxUiEvents
    /\ uiActive' = editor
    /\ m_TranslUnitId' = IF editor # 0 THEN resolved ELSE m_TranslUnitId
    /\ m_Diagnostics' = <<>>
    /\ UiDelivered("OnEditorActivate", -1, -1)
    /\ UNCHANGED <<uiPlugin, uiConnected, uiManagerSinks, uiPluginSinks, uiStc>>

\* An editor closes; the host is left with editor active.
UiOnEditorClose(editor) ==
    /\ uiNow < MaxUiEvents
    /\ uiActive' = editor
    /\ m_Diagnostics' = <<>>
    /\ m_TranslUnitId' = -1
    /\ UiDelivered("OnEditorClose", -1, -1)
    /\ UNCHANGED <<uiPlugin, uiConnected, uiManagerSinks, uiPluginSinks, uiStc>>

UiOnDiagnostics_Done(event, cfg, current) ==
    /\ m_TranslUnitId' = IF uiActive = 0 THEN m_TranslUnitId ELSE current
    /\ IF uiActive # 0 /\ OnDiagnostics_Accepts(event, current)
       THEN /\ m_Diagnostics' =
                   IF event.location[1] # 0 /\ event.location[2] # 0
                   THEN m_Diagnostics ELSE event.diagnostics
            /\ uiStc' = [uiStc EXCEPT ![uiActive] =
                   OnDiagnostics_Draw(@, event, cfg, UiFilename(uiActive))]
       ELSE UNCHANGED <<m_Diagnostics, uiStc>>
    /\ UiDelivered("OnDiagnostics", event.id, current)
    /\ UNCHANGED <<uiPlugin, uiConnected, uiManagerSinks, uiPluginSinks,
                   uiActive>>

UiOnDiagnostics(event, cfg, resolved) ==
    /\ uiNow < MaxUiEvents
    /\ UiOnDiagnostics_Done(event, cfg,
           GetCurrentTranslationUnitId(m_TranslUnitId, uiActive, resolved))

\* A menu command reaches the first connected entry with its id, if any.
UiMenuCommand(id) ==
    /\ uiNow < MaxUiEvents
    /\ id \in Range(uiConnected)
    /\ uiActive # 0
    /\ uiStc' = [uiStc EXCEPT ![uiActive] =
           IF id = idGotoNextDiagnostic
           THEN OnGotoNextDiagnostic(@, m_Diagnostics)
           ELSE OnGotoPrevDiagnostic(@, m_Diagnostics)]
    /\ UiDelivered(IF id = idGotoNextDiagnostic THEN "OnGotoNextDiagnostic"
                   ELSE "OnGotoPrevDiagnostic", -1, -1)
    /\ UNCHANGED <<uiPlugin, uiConnected, uiManagerSinks, uiPluginSinks,
                   uiActive, m_TranslUnitId, m_Diagnostics>>

UiNext ==
    \/ UiOnAttach
    \/ \E baseRemoves \in BOOLEAN : UiOnRelease(baseRemoves)
    \/ /\ "cbEVT_EDITOR_ACTIVATED" \in Range(uiManagerSinks)
       /\ \E editor \in {0} \cup UiFiles, resolved \in UiUnits :
             UiOnEditorActivate(editor, resolved)
    \/ /\ "cbEVT_EDITOR_CLOSE" \in Range(uiManagerSinks)
       /\ \E editor \in {0} \cup UiFiles : UiOnEditorClose(editor)
    \/ /\ uiPlugin # nullptr
       /\ "clEVT_DIAGNOSTICS_UPDATED" \in Range(uiPluginSinks)
       /\ uiNow < MaxUiEvents
       /\ \E event \in UiEvents, cfg \in UiConfigs,
             resolved \in UiResolved(m_TranslUnitId, uiActive) :
             UiOnDiagnostics(event, cfg, resolved)
    \/ \E id \in {idGotoNextDiagnostic, idGotoPrevDiagnostic} :
          UiMenuCommand(id)

-----------------------------------------------------------------------------
(* ClangJob::operator(), EventJob::Completed and JobCompleteEvent          *)

MaxJobs == 2
MaxPending == 2

NullJob == [m_JobType |-> "none"]
RunJobTypes == {"GetDiagnosticsType", "GetOccurrencesOfType", "GetTokensAtType"}
RunEventTypes == 0..2
RunEventIds == 0..1
RunResults == {<<>>, <<1>>, <<2>>}

\* GetTokensAtJob is a SyncJob and keeps its results behind m_pResults.
IsSyncJob(jt) == jt = "GetTokensAtType"

\* EventJob(jt, evtType, evtId) under the constructor of a job class;
\* cell is the buffer a sync job allocates for its results.
EventJob_New(jt, evtType, evtId, cell) ==
    [m_JobType |-> jt, m_pProxy |-> nullptr, m_EventType |-> evtType,
     m_EventId |-> evtId, m_Results |-> <<>>,
     m_pResults |-> IF IsSyncJob(jt) THEN cell ELSE nullptr,
     m_bCompleted |-> FALSE]

\* The copy constructors: EventJob(other) builds its base from the job
\* type alone, so the copy starts with no proxy; results are copied by
\* value, the result pointer of a sync job is copied as a pointer.
EventJob_Clone(other) == [other EXCEPT !.m_pProxy = nullptr]

GetResults(cells, job) ==
    IF IsSyncJob(job.m_JobType)
    THEN (IF job.m_pResults = nullptr THEN <<>> ELSE cells[job.m_pResults])
    ELSE job.m_Results

\* JobCompleteEvent(evtType, evtId, job) and its Clone().
JobCompleteEvent(evtType, evtId, job) ==
    [m_eventType |-> evtType, m_id |-> evtId, m_callbackUserData |-> job]

JobCompleteEvent_Clone(evt) ==
    JobCompleteEvent(evt.m_eventType, evt.m_id,
                     IF evt.m_callbackUserData = NullJob THEN NullJob
                     ELSE EventJob_Clone(evt.m_callbackUserData))

\* A completion that posts whatever the event type is.
EventJob_Completed_Posts_Always(handler, job) == handler # nullptr

EventJob_Completed_Posts(handler, job) ==
    handler # nullptr /\ job.m_EventType # 0

\* EventJob::Completed: the events AddPendingEvent queues (it queues a
\* clone of the event it is given).
EventJob_Completed(handler, job) ==
    IF EventJob_Completed_Posts(handler, job)
    THEN <<JobCompleteEvent_Clone(
               JobCompleteEvent(job.m_EventType, job.m_EventId, job))>>
    ELSE <<>>

RunIdle ==
    /\ jrHandler = nullptr
    /\ jrJob = NullJob
    /\ jrPc = "none"
    /\ jrCells = [c \in 1..MaxJobs |-> <<>>]
    /\ jrPending = <<>>
    /\ jrTrace = <<>>
    /\ jrPosted = 0
    /\ jrJobs = 0

\* The proxy is constructed over an event handler, or over none.
JrProxy(handler) ==
    /\ jrJobs = 0
    /\ jrPc = "none"
    /\ jrHandler' = handler
    /\ UNCHANGED <<jrJob, jrPc, jrCells, jrPending, jrTrace, jrPosted, jrJobs>>
    /\ UNCHANGED notRun

\* A job is constructed, cloned for the worker and given its proxy.
JrAppend(jt, evtType, evtId) ==
    /\ jrPc \in {"none", "done"}
    /\ jrJobs < MaxJobs
    /\ jrJobs' = jrJobs + 1
    /\ jrJob' = [EventJob_Clone(EventJob_New(jt, evtType, evtId, jrJobs + 1))
                    EXCEPT !.m_pProxy = 1]
    /\ jrPc' = "ready"
    /\ jrTrace' = <<>>
    /\ jrPosted' = 0
    /\ UNCHANGED <<jrHandler, jrCells, jrPending>>
    /\ UNCHANGED notRun

\* operator(), first call: Execute leaves results on the job.
JrExecute(results) ==
    /\ jrPc = "ready"
    /\ jrJob.m_pProxy # nullptr
    /\ IF IsSyncJob(jrJob.m_JobType)
       THEN /\ jrCells' = [jrCells EXCEPT ![jrJob.m_pResults] = results]
            /\ UNCHANGED jrJob
       ELSE /\ jrJob' = [jrJob EXCEPT !.m_Results = results]
            /\ UNCHANGED jrCells
    /\ jrTrace' = Append(jrTrace, "Execute")
    /\ jrPc' = "executed"
    /\ UNCHANGED <<jrHandler, jrPending, jrPosted, jrJobs>>
    /\ UNCHANGED notRun

\* operator(), second call: Completed. A sync job marks itself completed
\* first. The event built on the stack owns the job and destroys it when
\* it goes out of scope; the queued clone owns the job's clone.
JrCompleted ==
    /\ jrPc = "executed"
    /\ Len(jrPending) < MaxPending
    /\ jrPending' = jrPending \o
           EventJob_Completed(jrHandler,
               [jrJob EXCEPT !.m_bCompleted = IsSyncJob(jrJob.m_JobType)])
    /\ jrPosted' = jrPosted + Len(jrPending') - Len(jrPending)
    /\ jrTrace' = Append(jrTrace, "Completed")
    /\ jrPc' = "done"
    /\ UNCHANGED <<jrHandler, jrJob, jrCells, jrJobs>>
    /\ UNCHANGED notRun

\* The UI thread handles the oldest pending event and destroys it.
JrProcessPending ==
    /\ jrPending # <<>>
    /\ jrPending' = Tail(jrPending)
    /\ UNCHANGED <<jrHandler, jrJob, jrPc, jrCells, jrTrace, jrPosted, jrJobs>>
    /\ UNCHANGED notRun

RunNext ==
    \/ \E handler \in {nullptr, 1} : JrProxy(handler)
    \/ \E jt \in RunJobTypes, evtType \in RunEventTypes, evtId \in RunEventIds :
          JrAppend(jt, evtType, evtId)
    \/ \E results \in RunResults : JrExecute(results)
    \/ JrCompleted
    \/ JrProcessPending

-----------------------------------------------------------------------------
(* ClTokenDatabase (tokendatabase.cpp)                                     *)

MaxDbCalls == 3
MaxDbTokens == 3

\* wxAtoi on the text of a decimal number of up to two digits.
wxAtoi(str) ==
    LET digits == IF str # <<>> /\ Head(str) = 45 THEN Tail(str) ELSE str
        value == CASE Len(digits) = 1 -> digits[1] - 48
                   [] Len(digits) = 2 -> 10 * (digits[1] - 48) + digits[2] - 48
                   [] OTHER -> 0
    IN  IF str # <<>> /\ Head(str) = 45 THEN 0 - value ELSE value

ClAbstractToken(tokenType, fileId, range, identifier, displayName, USR, tokenHash) ==
    [tokenType |-> tokenType, fileId |-> fileId, range |-> range,
     identifier |-> identifier, displayName |-> displayName, USR |-> USR,
     tokenHash |-> tokenHash, parentTokenList |-> <<>>, scope |-> NoScope]

\* ClAbstractToken(): the blank token, in no file and of no type.
ClAbstractToken_Default ==
    ClAbstractToken(ClTokenType_Unknown, wxNOT_FOUND,
                    ClTokenRange(ClTokenPosition(0, 0), ClTokenPosition(0, 0)),
                    <<>>, <<>>, <<>>, 0)

TokenDB_New == [tokens |-> TreeMap_Empty, fileTokens |-> IntTree_Empty]

\* GetTokenId: the first id under identifier, ascending, whose token has
\* this hash and agrees in type and file unless those are left open.
TokenDB_GetTokenId(db, identifier, fileId, tokenType, tokenHash) ==
    LET ids == {id \in TreeMap_GetIdSet(db.tokens, identifier) :
                  /\ TreeMap_HasValue(db.tokens, id)
                  /\ TreeMap_GetValue(db.tokens, id).tokenHash = tokenHash
                  /\ \/ TreeMap_GetValue(db.tokens, id).tokenType = tokenType
                     \/ tokenType = ClTokenType_Unknown
                  /\ \/ TreeMap_GetValue(db.tokens, id).fileId = fileId
                     \/ fileId = wxNOT_FOUND}
    IN  IF ids = {} THEN wxNOT_FOUND ELSE FirstId(ids)

TokenDB_InsertToken(db, token) ==
    LET tId == TokenDB_GetTokenId(db, token.identifier, token.fileId,
                                  token.tokenType, token.tokenHash)
    IN  IF tId = wxNOT_FOUND
        THEN [db |-> [tokens |-> TreeMap_Insert(db.tokens, token.identifier, token),
                      fileTokens |-> IntTree_Insert(db.fileTokens,
                                         FormatInt(token.fileId),
                                         TreeMap_InsertedId(db.tokens))],
              id |-> TreeMap_InsertedId(db.tokens)]
        ELSE [db |-> db, id |-> tId]

TokenDB_GetToken(db, tId) == TreeMap_GetValue(db.tokens, tId)

TokenDB_GetTokenMatches(db, identifier) == TreeMap_GetIdSet(db.tokens, identifier)

TokenDB_GetFileTokens(db, fId) == IntTree_GetIdSet(db.fileTokens, FormatInt(fId))

TokenDB_GetTokenCount(db) == TreeMap_GetCount(db.tokens)

\* UpdateToken up to its assert: tokenRef is a copy of the slot, and the
\* slot's id is taken from under the copy's identifier.
TokenDB_UpdateToken_Unkeyed(db, freeTokenId) ==
    [db EXCEPT !.tokens =
        TreeMap_RemoveIdKey(@, TreeMap_GetValue(db.tokens, freeTokenId).identifier,
                            freeTokenId)]

TokenDB_UpdateToken_Assertion(db, freeTokenId) ==
    TreeMap_GetValue(db.tokens, freeTokenId).fileId = wxNOT_FOUND

\* UpdateToken past its assert: the five fields of token are assigned to
\* the copy, which is dropped on return, so the slot keeps its value; the
\* id is filed under token's file.
TokenDB_UpdateToken(db, freeTokenId, token) ==
    [TokenDB_UpdateToken_Unkeyed(db, freeTokenId) EXCEPT !.fileTokens =
        IntTree_Insert(@, FormatInt(token.fileId), freeTokenId)]

\* RemoveToken up to the UpdateToken call.
TokenDB_RemoveToken_Unfiled(db, tokenId) ==
    [db EXCEPT !.fileTokens =
        IntTree_RemoveValue(@, FormatInt(TokenDB_GetToken(db, tokenId).fileId),
                            tokenId)]

TokenDB_RemoveToken(db, tokenId) ==
    TokenDB_UpdateToken(TokenDB_RemoveToken_Unfiled(db, tokenId), tokenId,
                        ClAbstractToken_Default)

\* The first loop of StoreIndexes, over the keys in ascending order.
RECURSIVE TokenDB_StoreIndexes_Remove(_, _)
TokenDB_StoreIndexes_Remove(index, keys) ==
    IF keys = <<>> THEN index
    ELSE TokenDB_StoreIndexes_Remove(
             IndexDB_RemoveFileTokens(index, wxAtoi(Head(keys))), Tail(keys))

\* The second loop of StoreIndexes, over every slot from id on.
RECURSIVE TokenDB_StoreIndexes_Update(_, _, _)
TokenDB_StoreIndexes_Update(index, db, id) ==
    IF id >= TreeMap_GetCount(db.tokens) THEN index
    ELSE LET token == TreeMap_GetValue(db.tokens, id) IN
         TokenDB_StoreIndexes_Update(
             IndexDB_UpdateToken(index, token.identifier, token.displayName,
                                 token.fileId, token.USR, token.tokenType,
                                 token.range, token.parentTokenList, token.scope),
             db, id + 1)

TokenDB_StoreIndexes(db, index) ==
    TokenDB_StoreIndexes_Update(
        TokenDB_StoreIndexes_Remove(index,
            SortedStrings(IntTree_GetKeySet(db.fileTokens))),
        db, 0)

\* The file ids the project index has handed out, and the tokens a caller
\* builds for them: "f" in a known file or none, of a type or none, with a
\* hash that stands for the place of the token; "g"; and the blank token.
TdFileIds(index) ==
    {fId \in 0..(TreeMap_GetCount(index.fileDB) - 1) :
        TreeMap_HasValue(index.fileDB, fId)}

TdToken(identifier, fileId, tokenType, tokenHash) ==
    ClAbstractToken(tokenType, fileId, IF tokenHash = 1 THEN RangeA ELSE RangeB,
                    identifier, identifier, <<117>>, tokenHash)

TdTokens(fileIds) ==
    {TdToken(<<102>>, fileId, tokenType, tokenHash) :
        fileId \in fileIds \cup {wxNOT_FOUND},
        tokenType \in {ClTokenType_Unknown, ClTokenType_FuncDecl},
        tokenHash \in 1..2}
    \cup {TdToken(<<103>>, fileId, ClTokenType_FuncDecl, 1) : fileId \in fileIds}
    \cup {ClAbstractToken_Default}

\* The tokens UpdateToken is given: one of each identifier.
TdUpdateTokens(fileIds) ==
    {TdToken(identifier, fileId, ClTokenType_FuncDecl, 2) :
        identifier \in {<<102>>, <<103>>}, fileId \in fileIds}

TdNoCall ==
    [op |-> "none", id |-> wxNOT_FOUND, token |-> ClAbstractToken_Default,
     db |-> TokenDB_New, index |-> IndexDB_New, removed |-> {},
     assertion |-> TRUE, returned |-> TRUE]

TokenIdle ==
    /\ tdPc = "none"
    /\ tdNdebug = FALSE
    /\ tdDb = TokenDB_New
    /\ tdIndex = IndexDB_New
    /\ tdNow = 0
    /\ tdInserted = <<>>
    /\ tdRemoved = {}
    /\ tdLast = TdNoCall

\* The bookkeeping every call shares: what the call was given, the state
\* it met, whether its assertions held and whether it returned.
TdCalled(op, id, token, assertion) ==
    /\ tdNow' = tdNow + 1
    /\ tdLast' = [op |-> op, id |-> id, token |-> token, db |-> tdDb,
                  index |-> tdIndex, removed |-> tdRemoved,
                  assertion |-> assertion, returned |-> assertion \/ tdNdebug]
    /\ tdPc' = IF assertion \/ tdNdebug THEN "open" ELSE "aborted"
    /\ UNCHANGED tdNdebug
    /\ UNCHANGED notTd

\* The database is constructed over a project index, in a build with or
\* without assertions.
TdOpen(ndebug) ==
    /\ tdPc = "none"
    /\ tdPc' = "open"
    /\ tdNdebug' = ndebug
    /\ UNCHANGED <<tdDb, tdIndex, tdNow, tdInserted, tdRemoved, tdLast>>
    /\ UNCHANGED notTd

TdGetFilenameId(filename) ==
    /\ tdPc = "open"
    /\ TreeMap_GetCount(tdIndex.fileDB) < MaxStreamFiles + 1
    /\ ~FilenameDB_HasFilename(tdIndex.fileDB, filename)
    /\ tdIndex' = IndexDB_GetFilenameId(tdIndex, filename).db
    /\ UNCHANGED <<tdPc, tdNdebug, tdDb, tdNow, tdInserted, tdRemoved, tdLast>>
    /\ UNCHANGED notTd

TdInsertToken_Done(token, r) ==
    /\ tdDb' = r.db
    /\ tdInserted' = Append(tdInserted, [token |-> token, id |-> r.id])
    /\ TdCalled("InsertToken", r.id, token, TRUE)
    /\ UNCHANGED <<tdIndex, tdRemoved>>

TdInsertToken(token) ==
    /\ TokenDB_GetTokenCount(tdDb) < MaxDbTokens
    /\ TdInsertToken_Done(token, TokenDB_InsertToken(tdDb, token))

\* In a build with assertions a failed assert stops the program where it
\* stands, with the id already taken from under its identifier.
TdUpdateToken(freeTokenId, token) ==
    /\ \/ freeTokenId \in tdRemoved
       \/ TokenDB_GetToken(tdDb, freeTokenId).fileId = wxNOT_FOUND
    /\ tdDb' = IF TokenDB_UpdateToken_Assertion(tdDb, freeTokenId) \/ tdNdebug
               THEN TokenDB_UpdateToken(tdDb, freeTokenId, token)
               ELSE TokenDB_UpdateToken_Unkeyed(tdDb, freeTokenId)
    /\ TdCalled("UpdateToken", freeTokenId, token,
                TokenDB_UpdateToken_Assertion(tdDb, freeTokenId))
    /\ UNCHANGED <<tdIndex, tdInserted, tdRemoved>>

TdRemoveToken(tokenId) ==
    /\ tdDb' = IF TokenDB_UpdateToken_Assertion(tdDb, tokenId) \/ tdNdebug
               THEN TokenDB_RemoveToken(tdDb, tokenId)
               ELSE TokenDB_UpdateToken_Unkeyed(
                        TokenDB_RemoveToken_Unfiled(tdDb, tokenId), tokenId)
    /\ tdRemoved' = tdRemoved \cup {tokenId}
    /\ TdCalled("RemoveToken", tokenId, ClAbstractToken_Default,
                TokenDB_UpdateToken_Assertion(tdDb, tokenId))
    /\ UNCHANGED <<tdIndex, tdInserted>>

TdStoreIndexes ==
    /\ tdPc = "open"
    /\ tdNow < MaxDbCalls
    /\ tdIndex' = TokenDB_StoreIndexes(tdDb, tdIndex)
    /\ TdCalled("StoreIndexes", wxNOT_FOUND, ClAbstractToken_Default, TRUE)
    /\ UNCHANGED <<tdDb, tdInserted, tdRemoved>>

\* Another translation unit's database stores a token into the index.
TdIndexUpdateToken(a) ==
    /\ tdIndex' = IndexDB_UpdateToken(tdIndex, a.identifier, a.displayName,
                      a.fileId, a.USR, a.tokType, a.tokenRange,
                      a.overrideTokenList, a.scope)
    /\ TdCalled("IndexUpdateToken", wxNOT_FOUND, ClAbstractToken_Default, TRUE)
    /\ UNCHANGED <<tdDb, tdInserted, tdRemoved>>

TdIndexCalls(fileIds) ==
    {Call(<<102>>, fileId, <<117>>, ClTokenType_FuncDecl, range, <<>>, NoScope) :
        fileId \in fileIds, range \in {RangeA, RangeB}}

TokenNext ==
    \/ \E ndebug \in BOOLEAN : TdOpen(ndebug)
    \/ \E filename \in IndexPaths : TdGetFilenameId(filename)
    \/ /\ tdPc = "open"
       /\ tdNow < MaxDbCalls
       /\ \E token \in TdTokens(TdFileIds(tdIndex)) : TdInsertToken(token)
    \/ /\ tdPc = "open"
       /\ tdNow < MaxDbCalls
       /\ \E tokenId \in 0..(TokenDB_GetTokenCount(tdDb) - 1) :
             TdRemoveToken(tokenId)
    \/ /\ tdPc = "open"
       /\ tdNow < MaxDbCalls
       /\ \E freeTokenId \in 0..(TokenDB_GetTokenCount(tdDb) - 1),
             token \in TdUpdateTokens(TdFileIds(tdIndex)) :
             TdUpdateToken(freeTokenId, token)
    \/ TdStoreIndexes
    \/ /\ tdPc = "open"
       /\ tdNow < MaxDbCalls
       /\ \E a \in TdIndexCalls(TdFileIds(tdIndex)) : TdIndexUpdateToken(a)

-----------------------------------------------------------------------------
(* ClangDiagnostics::OnDiagnostics: the drawing loop on one event          *)

\* The messages "x" and "xy": the first is part of the second.
PaintMessages == {<<120>>, <<120, 121>>}

PaintDiagnostics ==
    {UiDiagnostic(line, range, severity, fl, message) :
        line \in 1..MaxUiLine, range \in {<<1, 2>>, <<2, 3>>, <<3, 3>>},
        severity \in {"sWarning", "sError", "sNote"}, fl \in UiFiles,
        message \in PaintMessages}

\* The lists an event carries: up to two diagnostics, the second one in
\* the active file.
PaintLists ==
    {<<>>} \cup {<<dg>> : dg \in PaintDiagnostics}
    \cup {<<first, second>> :
            first \in PaintDiagnostics,
            second \in {dg \in PaintDiagnostics : dg.file = UiFilename(1)}}

PaintEvents ==
    {[id |-> 0, location |-> location, diagnostics |-> diagnostics] :
        location \in {<<0, 0>>, <<1, 1>>}, diagnostics \in PaintLists}

PaintIdle ==
    /\ pnPhase = "idle"
    /\ pnEvent = [id |-> 0, location |-> <<0, 0>>, diagnostics |-> <<>>]
    /\ pnCfg = UiConfig(TRUE, TRUE, TRUE)
    /\ pnStc = Stc_New

\* The event is for the unit of the active editor, file 1, and is drawn.
PnOnDiagnostics(event, cfg) ==
    /\ pnPhase' = "drawn"
    /\ pnEvent' = event
    /\ pnCfg' = cfg
    /\ pnStc' = OnDiagnostics_Draw(Stc_New, event, cfg, UiFilename(1))
    /\ UNCHANGED notPaint

PaintNext ==
    /\ pnPhase = "idle"
    /\ \E event \in PaintEvents, cfg \in UiConfigs : PnOnDiagnostics(event, cfg)

-----------------------------------------------------------------------------
(* Job time stamps: ClangJob and EventJob constructors and Clone().       *)
(* wxDateTime::Now() and wxDateTime::GetTimeNow() both read the wall clock *)
(* with a resolution of one second.                                        *)

MaxClock == 3
MaxStampClones == 2

StampJobTypes == {"CreateTranslationUnitType", "ReparseType", "CodeCompleteAtType"}

\* ClangJob(JobType jt): no proxy yet, stamped with the time of construction.
ClangJob_Ctor(jt, now) ==
    [m_JobType |-> jt, m_pProxy |-> nullptr, m_Timestamp |-> now]

\* ClangJob(const ClangJob& other)
ClangJob_CopyCtor(other) ==
    [m_JobType |-> other.m_JobType, m_pProxy |-> other.m_pProxy,
     m_Timestamp |-> other.m_Timestamp]

\* EventJob(jt, evtType, evtId)
EventJob_Ctor(jt, evtType, evtId, now) ==
    LET base == ClangJob_Ctor(jt, now)
    IN  [m_JobType |-> base.m_JobType, m_pProxy |-> base.m_pProxy,
         m_Timestamp |-> base.m_Timestamp, m_EventType |-> evtType,
         m_EventId |-> evtId, m_CreationTime |-> now]

\* EventJob(const EventJob& other): its base is built by ClangJob(JobType),
\* not by the base's copy constructor.
EventJob_CopyCtor_Base(other, now) == ClangJob_Ctor(other.m_JobType, now)

EventJob_CopyCtor(other, now) ==
    LET base == EventJob_CopyCtor_Base(other, now)
    IN  [m_JobType |-> base.m_JobType, m_pProxy |-> base.m_pProxy,
         m_Timestamp |-> base.m_Timestamp, m_EventType |-> other.m_EventType,
         m_EventId |-> other.m_EventId,
         m_CreationTime |-> other.m_CreationTime]

\* Clone() of a concrete job: new XJob(*this), whose copy constructor
\* starts with EventJob(other).
Stamped_Clone(job, now) == EventJob_CopyCtor(job, now)

StampIdle ==
    /\ tsClock = 0
    /\ tsJob = NullJob
    /\ tsClones = <<>>

StConstruct(jt, evtType, evtId) ==
    /\ tsJob = NullJob
    /\ tsJob' = EventJob_Ctor(jt, evtType, evtId, tsClock)
    /\ UNCHANGED <<tsClock, tsClones>>
    /\ UNCHANGED notStamp

StSetProxy ==
    /\ tsJob # NullJob
    /\ tsJob.m_pProxy = nullptr
    /\ tsJob' = [tsJob EXCEPT !.m_pProxy = 1]
    /\ UNCHANGED <<tsClock, tsClones>>
    /\ UNCHANGED notStamp

StTick ==
    /\ tsClock < MaxClock
    /\ tsClock' = tsClock + 1
    /\ UNCHANGED <<tsJob, tsClones>>
    /\ UNCHANGED notStamp

\* Clone() on the original (n = 0) or on an earlier copy.
StClone(n) ==
    /\ tsJob # NullJob
    /\ Len(tsClones) < MaxStampClones
    /\ n \in 0..Len(tsClones)
    /\ tsClones' = Append(tsClones,
                          Stamped_Clone(IF n = 0 THEN tsJob ELSE tsClones[n],
                                    tsClock))
    /\ UNCHANGED <<tsClock, tsJob>>
    /\ UNCHANGED notStamp

StampNext ==
    \/ \E jt \in StampJobTypes, evtType \in RunEventTypes, evtId \in RunEventIds :
           StConstruct(jt, evtType, evtId)
    \/ StSetProxy
    \/ StTick
    \/ \E n \in 0..MaxStampClones : StClone(n)

-----------------------------------------------------------------------------
(* The mutex of ClTokenIndexDatabase as one thread sees it, ReadIn with    *)
(* its calls of AddToken, and the recursion of LookupTokenDisplayName.     *)
(* The class declaration is not part of the sources at hand, so the kind   *)
(* of the mutex is chosen at construction.  A second Lock() by the owner   *)
(* succeeds on a recursive mutex and returns wxMUTEX_DEAD_LOCK on a        *)
(* default one; the wxMutexLocker then is not ok and unlocks nothing.      *)

MaxNameTokens == 3
MaxDepth == MaxNameTokens + 2

ColonColon == <<58, 58>>

MutexKinds == {"wxMUTEX_DEFAULT", "wxMUTEX_RECURSIVE"}

\* wxMutexLocker locker(m_Mutex): the count afterwards and IsOk().
wxMutexLocker_New(kind, count) ==
    IF count = 0 THEN [count |-> 1, ok |-> TRUE]
    ELSE IF kind = "wxMUTEX_RECURSIVE" THEN [count |-> count + 1, ok |-> TRUE]
    ELSE [count |-> count, ok |-> FALSE]

\* ~wxMutexLocker(): Unlock() only if the lock was taken.
wxMutexLocker_Delete(ok, count) == IF ok THEN count - 1 ELSE count

NameToken(identifier, displayName, USR, scope) ==
    ClIndexToken_New(identifier, displayName, 0, USR, ClTokenType_FuncDecl,
                     ClTokenRange(ClTokenPosition(1, 1), ClTokenPosition(1, 2)),
                     <<>>, scope)

\* The tokens the index is filled from: "a" at top level, two tokens "b"
\* inside a, "c" inside the b with USR "u", a token that names itself as
\* its scope, and a token without identifier.
NameTokens ==
    {NameToken(<<97>>, <<65>>, <<>>, <<<<>>, <<>>>>),
     NameToken(<<98>>, <<66>>, <<117>>, <<<<97>>, <<>>>>),
     NameToken(<<98>>, <<68>>, <<118>>, <<<<>>, <<>>>>),
     NameToken(<<99>>, <<67>>, <<>>, <<<<98>>, <<117>>>>),
     NameToken(<<97>>, <<69>>, <<>>, <<<<97>>, <<>>>>),
     NameToken(<<>>, <<70>>, <<>>, <<<<>>, <<>>>>)}

NameIdentifiers == {<<>>, <<97>>, <<98>>, <<99>>}
NameUSRs == {<<>>, <<117>>}

\* The ids of the loop of LookupTokenDisplayName that pass its USR test.
LookupTokenDisplayName_Matches(db, identifier, USR) ==
    {id \in TreeMap_GetIdSet(db.tokens, identifier) :
        Len(USR) = 0 \/ USR = TreeMap_GetValue(db.tokens, id).USR}

\* out_DisplayName = out_DisplayName + "::" + parentScopeDisplayName
LookupTokenDisplayName_Join_Reversed(parentScopeDisplayName, out_DisplayName) ==
    out_DisplayName \o ColonColon \o parentScopeDisplayName

\* out_DisplayName = parentScopeDisplayName + wxT("::") + out_DisplayName
LookupTokenDisplayName_Join(parentScopeDisplayName, out_DisplayName) ==
    parentScopeDisplayName \o ColonColon \o out_DisplayName

NameFrame(identifier, USR) ==
    [identifier |-> identifier, USR |-> USR, pc |-> "enter", locked |-> FALSE,
     found |-> FALSE, out_DisplayName |-> <<>>]

NoLookup == [identifier |-> <<>>, USR |-> <<>>, found |-> FALSE,
             out_DisplayName |-> <<>>, done |-> FALSE]

NameIdle ==
    /\ mxKind = "wxMUTEX_DEFAULT"
    /\ mxCount = 0
    /\ mxAttempt = [by |-> "none", held |-> 0]
    /\ nmOp = "new"
    /\ nmDb = IndexDB_New
    /\ nmPending = <<>>
    /\ nmStack = <<>>
    /\ nmLast = NoLookup

\* new ClTokenIndexDatabase()
NmConstruct(kind) ==
    /\ nmOp = "new"
    /\ nmOp' = "idle"
    /\ mxKind' = kind
    /\ UNCHANGED <<mxCount, mxAttempt, nmDb, nmPending, nmStack, nmLast>>
    /\ UNCHANGED notName

\* ReadIn up to the token packet: Clear(), then the locker that lives until
\* ReadIn returns.
NmReadIn(tokens) ==
    /\ nmOp = "idle"
    /\ TreeMap_GetCount(nmDb.tokens) = 0
    /\ LET locker == wxMutexLocker_New(mxKind, mxCount) IN
       /\ mxAttempt' = [by |-> "ReadIn", held |-> mxCount]
       /\ mxCount' = locker.count
    /\ nmOp' = "ReadIn"
    /\ nmDb' = IndexDB_Clear(nmDb)
    /\ nmPending' = tokens
    /\ UNCHANGED <<mxKind, nmStack, nmLast>>
    /\ UNCHANGED notName

\* One round of the token loop of ReadIn: tokenDatabase.AddToken(identifier,
\* token), which takes a locker of its own for a non-empty identifier.
NmAddToken ==
    /\ nmOp = "ReadIn"
    /\ nmPending # <<>>
    /\ LET token == Head(nmPending) IN
       /\ IF Len(token.identifier) > 0
          THEN LET locker == wxMutexLocker_New(mxKind, mxCount) IN
               /\ mxAttempt' = [by |-> "AddToken", held |-> mxCount]
               /\ mxCount' = wxMutexLocker_Delete(locker.ok, locker.count)
          ELSE UNCHANGED <<mxAttempt, mxCount>>
       /\ nmDb' = IndexDB_AddToken(nmDb, token.identifier, token)
    /\ nmPending' = Tail(nmPending)
    /\ UNCHANGED <<mxKind, nmOp, nmStack, nmLast>>
    /\ UNCHANGED notName

\* ReadIn returns: its locker goes.
NmReadInReturn ==
    /\ nmOp = "ReadIn"
    /\ nmPending = <<>>
    /\ nmOp' = "idle"
    /\ mxCount' = wxMutexLocker_Delete(TRUE, mxCount)
    /\ UNCHANGED <<mxKind, mxAttempt, nmDb, nmPending, nmStack, nmLast>>
    /\ UNCHANGED notName

\* UpdateToken: one locker for the whole call.
NmUpdateToken(token) ==
    /\ nmOp = "idle"
    /\ TreeMap_GetCount(nmDb.tokens) < MaxNameTokens
    /\ LET locker == wxMutexLocker_New(mxKind, mxCount) IN
       /\ mxAttempt' = [by |-> "UpdateToken", held |-> mxCount]
       /\ mxCount' = wxMutexLocker_Delete(locker.ok, locker.count)
    /\ nmDb' = IndexDB_UpdateToken(nmDb, token.identifier, token.displayName, 0,
                   token.USR, ClTokenType_FuncDecl, token.locationList[1].range,
                   <<>>, token.scope)
    /\ UNCHANGED <<mxKind, nmOp, nmPending, nmStack, nmLast>>
    /\ UNCHANGED notName

\* A caller enters LookupTokenDisplayName(identifier, USR, out).
NmLookup(identifier, USR) ==
    /\ nmOp = "idle"
    /\ nmOp' = "LookupTokenDisplayName"
    /\ nmStack' = <<NameFrame(identifier, USR)>>
    /\ nmLast' = [NoLookup EXCEPT !.identifier = identifier, !.USR = USR]
    /\ UNCHANGED <<mxKind, mxCount, mxAttempt, nmDb, nmPending>>
    /\ UNCHANGED notName

\* The innermost call from its locker to either "return false" or the
\* recursive call for the scope of the first matching token.
NmEnter ==
    /\ nmOp = "LookupTokenDisplayName"
    /\ nmStack # <<>>
    /\ LET n == Len(nmStack)
           top == nmStack[n]
           locker == wxMutexLocker_New(mxKind, mxCount)
           matches == LookupTokenDisplayName_Matches(nmDb, top.identifier, top.USR)
       IN  /\ top.pc = "enter"
           /\ mxAttempt' = [by |-> "LookupTokenDisplayName", held |-> mxCount]
           /\ mxCount' = locker.count
           /\ IF matches = {}
              THEN nmStack' = [nmStack EXCEPT ![n] =
                                  [top EXCEPT !.pc = "return", !.locked = locker.ok]]
              ELSE LET token == TreeMap_GetValue(nmDb.tokens, FirstId(matches)) IN
                   /\ n < MaxDepth
                   /\ nmStack' = Append(
                          [nmStack EXCEPT ![n] =
                              [top EXCEPT !.pc = "wait", !.locked = locker.ok,
                                          !.out_DisplayName = token.displayName]],
                          NameFrame(token.scope[1], token.scope[2]))
    /\ UNCHANGED <<mxKind, nmOp, nmDb, nmPending, nmLast>>
    /\ UNCHANGED notName

\* The innermost call returns: its locker goes, and the call that waited
\* for it puts the scope's name in front and returns true in its turn.
NmReturn ==
    /\ nmOp = "LookupTokenDisplayName"
    /\ nmStack # <<>>
    /\ LET n == Len(nmStack)
           top == nmStack[n]
       IN  /\ top.pc = "return"
           /\ mxCount' = wxMutexLocker_Delete(top.locked, mxCount)
           /\ IF n = 1
              THEN /\ nmStack' = <<>>
                   /\ nmOp' = "done"
                   /\ nmLast' = [nmLast EXCEPT !.found = top.found,
                                    !.out_DisplayName = top.out_DisplayName,
                                    !.done = TRUE]
              ELSE /\ nmStack' = [SubSeq(nmStack, 1, n - 1) EXCEPT ![n - 1] =
                          [@ EXCEPT !.pc = "return", !.found = TRUE,
                              !.out_DisplayName =
                                  IF top.found
                                  THEN LookupTokenDisplayName_Join(
                                           top.out_DisplayName, @)
                                  ELSE @]]
                   /\ UNCHANGED <<nmOp, nmLast>>
    /\ UNCHANGED <<mxKind, mxAttempt, nmDb, nmPending>>
    /\ UNCHANGED notName

NameStreams ==
    {<<>>} \cup {<<t>> : t \in NameTokens}
           \cup {<<t, u>> : t \in NameTokens, u \in NameTokens}

NameNext ==
    \/ \E kind \in MutexKinds : NmConstruct(kind)
    \/ /\ nmOp = "idle"
       /\ TreeMap_GetCount(nmDb.tokens) = 0
       /\ \E tokens \in NameStreams : NmReadIn(tokens)
    \/ NmAddToken
    \/ NmReadInReturn
    \/ /\ nmOp = "idle"
       /\ \E token \in NameTokens : NmUpdateToken(token)
    \/ /\ nmOp = "idle"
       /\ \E identifier \in NameIdentifiers, USR \in NameUSRs :
              NmLookup(identifier, USR)
    \/ NmEnter
    \/ NmReturn

-----------------------------------------------------------------------------
(* ClAST_Visitor: the callback of clang_visitChildren.  A cursor is what   *)
(* the native library answers about it: its kind, spelling location,       *)
(* completion string, and the kinds and display names of the cursor and    *)
(* its semantic parents, innermost first.  The context holds the token     *)
(* database (with the filenames it hands out ids for), the token count and *)
(* the function scopes in the order they were appended.                    *)

MaxVisits == 2

CursorKinds ==
    {"CXCursor_ClassDecl", "CXCursor_FieldDecl", "CXCursor_EnumConstantDecl",
     "CXCursor_TypedefDecl", "CXCursor_FunctionDecl", "CXCursor_VarDecl",
     "CXCursor_CXXMethod", "CXCursor_CompoundStmt"}

CursorScopeKinds ==
    {"CXCursor_Namespace", "CXCursor_StructDecl", "CXCursor_ClassDecl",
     "CXCursor_ClassTemplate", "CXCursor_ClassTemplatePartialSpecialization",
     "CXCursor_CXXMethod"}

\* The first switch: [typ, ret], with ret "none" where the visitor returns
\* CXChildVisit_Recurse at once.
ClAST_Visitor_Classify(kind) ==
    CASE kind \in {"CXCursor_StructDecl", "CXCursor_UnionDecl", "CXCursor_ClassDecl",
                   "CXCursor_EnumDecl", "CXCursor_Namespace", "CXCursor_ClassTemplate"} ->
             [typ |-> ClTokenType_ScopeDecl, ret |-> "CXChildVisit_Recurse"]
      [] kind \in {"CXCursor_FieldDecl", "CXCursor_EnumConstantDecl",
                   "CXCursor_TypedefDecl"} ->
             [typ |-> ClTokenType_Unknown, ret |-> "CXChildVisit_Continue"]
      [] kind \in {"CXCursor_FunctionDecl", "CXCursor_CXXMethod", "CXCursor_Constructor",
                   "CXCursor_Destructor", "CXCursor_FunctionTemplate"} ->
             [typ |-> ClTokenType_FuncDecl, ret |-> "CXChildVisit_Continue"]
      [] kind = "CXCursor_VarDecl" ->
             [typ |-> ClTokenType_VarDecl, ret |-> "CXChildVisit_Continue"]
      [] kind = "CXCursor_ParmDecl" ->
             [typ |-> ClTokenType_ParmDecl, ret |-> "CXChildVisit_Continue"]
      [] OTHER -> [typ |-> ClTokenType_Unknown, ret |-> "none"]

\* The walk up the semantic parents, from the cursor itself: the first
\* scope cursor gives displayName, the later ones are put in front of
\* scopeName.
RECURSIVE ClAST_Visitor_Scopes(_, _, _)
ClAST_Visitor_Scopes(parents, displayName, scopeName) ==
    IF parents = <<>> THEN [displayName |-> displayName, scopeName |-> scopeName]
    ELSE IF Head(parents).kind \in CursorScopeKinds
    THEN IF Len(displayName) = 0
         THEN ClAST_Visitor_Scopes(Tail(parents), Head(parents).displayName, scopeName)
         ELSE ClAST_Visitor_Scopes(Tail(parents), displayName,
                  Head(parents).displayName
                      \o (IF Len(scopeName) > 0 THEN ColonColon \o scopeName
                          ELSE scopeName))
    ELSE ClAST_Visitor_Scopes(Tail(parents), displayName, scopeName)

ClFunctionScope(functionName, scopeName, startLocation) ==
    [functionName |-> functionName, scopeName |-> scopeName,
     startLocation |-> startLocation]

\* ctx->functionScopes[fileId]
FunctionScopesOf(ctx, fileId) ==
    SelectSeq(ctx.functionScopes, LAMBDA e : e.fileId = fileId)

\* The end of the visitor: the scope entry, unless it repeats the last one
\* of the file.
ClAST_Visitor_PushScope(ctx, fileId, names, position) ==
    LET list == FunctionScopesOf(ctx, fileId) IN
    IF Len(names.displayName) = 0 THEN ctx
    ELSE IF /\ Len(list) > 0
            /\ list[Len(list)].scope.scopeName = names.scopeName
            /\ list[Len(list)].scope.functionName = names.displayName
    THEN ctx
    ELSE [ctx EXCEPT !.functionScopes =
             Append(@, [fileId |-> fileId,
                        scope |-> ClFunctionScope(names.displayName, names.scopeName,
                                                  position)])]

\* The part of the visitor behind the switch, for a cursor in a file whose
\* completion string gives an identifier.
ClAST_Visitor_Insert(ctx, cursor, typ, hashed) ==
    LET names == ClAST_Visitor_Scopes(cursor.parents, <<>>, <<>>)
        file == FilenameDB_GetFilenameId(ctx.files, cursor.filename)
        position == ClTokenPosition(cursor.line, cursor.col)
        tok == ClAbstractToken(typ, file.id, ClTokenRange(position, position),
                               hashed.identifier, <<>>, <<>>, hashed.hVal)
    IN  ClAST_Visitor_PushScope(
            [ctx EXCEPT !.files = file.db,
                        !.database = TokenDB_InsertToken(ctx.database, tok).db,
                        !.tokenCount = @ + 1],
            file.id, names, position)

\* ClAST_Visitor(cursor, parent, client_data): [ctx, ret].
ClAST_Visitor(ctx, cursor, charIsSigned) ==
    LET class == ClAST_Visitor_Classify(cursor.kind)
        hashed == HashToken(cursor.token, <<>>, charIsSigned)
    IN  IF class.ret = "none" THEN [ctx |-> ctx, ret |-> "CXChildVisit_Recurse"]
        ELSE IF cursor.filename = <<>> THEN [ctx |-> ctx, ret |-> class.ret]
        ELSE IF hashed.identifier = <<>> THEN [ctx |-> ctx, ret |-> class.ret]
        ELSE [ctx |-> ClAST_Visitor_Insert(ctx, cursor, class.typ, hashed),
              ret |-> class.ret]

\* ClangVisitorContext(pDatabase)
ClangVisitorContext_New ==
    [database |-> TokenDB_New, files |-> FilenameDB_New, tokenCount |-> 0,
     functionScopes |-> <<>>]

VisitParents(kind) ==
    {<<[kind |-> kind, displayName |-> <<109>>]>>,
     <<[kind |-> kind, displayName |-> <<109>>],
       [kind |-> "CXCursor_ClassDecl", displayName |-> <<75>>]>>,
     <<[kind |-> kind, displayName |-> <<109>>],
       [kind |-> "CXCursor_ClassDecl", displayName |-> <<75>>],
       [kind |-> "CXCursor_Namespace", displayName |-> <<78>>]>>}

VisitTokens ==
    {<<>>,
     <<[kind |-> "CXCompletionChunk_TypedText", text |-> <<102>>]>>,
     <<[kind |-> "CXCompletionChunk_Text", text |-> <<126>>],
       [kind |-> "CXCompletionChunk_TypedText", text |-> <<102>>]>>}

VisitCursors ==
    UNION {[kind : {kind}, filename : {<<>>, <<97>>}, line : 1..2, col : {1},
            token : VisitTokens, parents : VisitParents(kind)] :
           kind \in CursorKinds}

NoCursor == [kind |-> "none"]

VisitIdle ==
    /\ avCtx = ClangVisitorContext_New
    /\ avNow = 0
    /\ avLast = [cursor |-> NoCursor, before |-> ClangVisitorContext_New,
                 ret |-> "none"]

AvVisit(cursor, charIsSigned) ==
    LET r == ClAST_Visitor(avCtx, cursor, charIsSigned) IN
    /\ avNow < MaxVisits
    /\ avNow' = avNow + 1
    /\ avCtx' = r.ctx
    /\ avLast' = [cursor |-> cursor, before |-> avCtx, ret |-> r.ret]
    /\ UNCHANGED notVisit

VisitNext ==
    /\ avNow < MaxVisits
    /\ \E cursor \in VisitCursors, charIsSigned \in BOOLEAN :
           AvVisit(cursor, charIsSigned)

-----------------------------------------------------------------------------
(* The native translation-unit handle through Parse, Reparse, the copy or  *)
(* move constructor and the destructor of ClTranslationUnit.  The library  *)
(* side keeps the account: how many handles it has given out, every        *)
(* clang_disposeTranslationUnit call in order, and whether a handle was    *)
(* passed to it after its disposal.                                        *)

MaxObjects == 2
MaxHandles == 3
MaxHandleOps == 7

NoUnit == [live |-> FALSE, m_ClTranslUnit |-> nullptr]

\* ClTranslationUnit(id, clIndex)
ClTranslationUnit_Ctor == [live |-> TRUE, m_ClTranslUnit |-> nullptr]

HandleLib_New == [obtained |-> 0, disposed |-> <<>>, misused |-> FALSE]

\* A native call that takes the handle.
HandleLib_Use(lib, handle) ==
    IF handle \in Range(lib.disposed) THEN [lib EXCEPT !.misused = TRUE] ELSE lib

HandleLib_Dispose(lib, handle) ==
    [HandleLib_Use(lib, handle) EXCEPT !.disposed = Append(@, handle)]

\* "if (m_ClTranslUnit) { clang_disposeTranslationUnit(m_ClTranslUnit); }"
HandleLib_DisposeHeld(lib, unit) ==
    IF unit.m_ClTranslUnit # nullptr THEN HandleLib_Dispose(lib, unit.m_ClTranslUnit)
    ELSE lib

\* Parse: the old handle goes first; parsed and ret are the answers of
\* clang_parseTranslationUnit and of the clang_reparseTranslationUnit that
\* follows it.  Result: [unit, lib].
ClTranslationUnit_Parse_Handle(unit, lib, hasFilename, parsed, ret) ==
    LET lib1 == HandleLib_DisposeHeld(lib, unit)
        unit1 == [unit EXCEPT !.m_ClTranslUnit = nullptr]
        handle == lib1.obtained + 1
        lib2 == HandleLib_Use([lib1 EXCEPT !.obtained = handle], handle)
    IN  IF ~hasFilename \/ ~parsed THEN [unit |-> unit1, lib |-> lib1]
        ELSE IF ret # 0
        THEN [unit |-> unit1, lib |-> HandleLib_Dispose(lib2, handle)]
        ELSE [unit |-> [unit1 EXCEPT !.m_ClTranslUnit = handle], lib |-> lib2]

\* Reparse: nothing without a handle; a failed reparse disposes it.
ClTranslationUnit_Reparse_Handle(unit, lib, ret) ==
    IF unit.m_ClTranslUnit = nullptr THEN [unit |-> unit, lib |-> lib]
    ELSE IF ret # 0
    THEN [unit |-> [unit EXCEPT !.m_ClTranslUnit = nullptr],
          lib |-> HandleLib_Dispose(HandleLib_Use(lib, unit.m_ClTranslUnit),
                                    unit.m_ClTranslUnit)]
    ELSE [unit |-> unit, lib |-> HandleLib_Use(lib, unit.m_ClTranslUnit)]

\* A copy that leaves the handle with the source as well.
ClTranslationUnit_CopyCtor_Shared(other) ==
    [new |-> [live |-> TRUE, m_ClTranslUnit |-> other.m_ClTranslUnit],
     other |-> other]

\* ClTranslationUnit(ClTranslationUnit&& other) and, before C++11,
\* ClTranslationUnit(const ClTranslationUnit& other): the handle goes to
\* the new object and other.m_ClTranslUnit = nullptr.
ClTranslationUnit_CopyCtor(other) ==
    [new |-> [live |-> TRUE, m_ClTranslUnit |-> other.m_ClTranslUnit],
     other |-> [other EXCEPT !.m_ClTranslUnit = nullptr]]

\* ~ClTranslationUnit()
ClTranslationUnit_Dtor(unit, lib) == HandleLib_DisposeHeld(lib, unit)

HandleIdle ==
    /\ hnObjs = [o \in 1..MaxObjects |-> NoUnit]
    /\ hnLib = HandleLib_New
    /\ hnOps = 0

HnStep(objs, lib) ==
    /\ hnOps < MaxHandleOps
    /\ hnOps' = hnOps + 1
    /\ hnObjs' = objs
    /\ hnLib' = lib
    /\ UNCHANGED notHandle

HnConstruct(o) ==
    /\ ~hnObjs[o].live
    /\ HnStep([hnObjs EXCEPT ![o] = ClTranslationUnit_Ctor], hnLib)

HnParse(o, hasFilename, parsed, ret) ==
    /\ hnObjs[o].live
    /\ hnLib.obtained < MaxHandles
    /\ LET r == ClTranslationUnit_Parse_Handle(hnObjs[o], hnLib, hasFilename,
                                               parsed, ret)
       IN  HnStep([hnObjs EXCEPT ![o] = r.unit], r.lib)

HnReparse(o, ret) ==
    /\ hnObjs[o].live
    /\ LET r == ClTranslationUnit_Reparse_Handle(hnObjs[o], hnLib, ret)
       IN  HnStep([hnObjs EXCEPT ![o] = r.unit], r.lib)

\* GetTokenAt, CodeCompleteAt, ProcessAllTokens, GetDiagnostics: a native
\* call with the handle when there is one.
HnUse(o) ==
    /\ hnObjs[o].live
    /\ hnObjs[o].m_ClTranslUnit # nullptr
    /\ HnStep(hnObjs, HandleLib_Use(hnLib, hnObjs[o].m_ClTranslUnit))

HnCopy(o, from) ==
    /\ o # from
    /\ ~hnObjs[o].live
    /\ hnObjs[from].live
    /\ LET r == ClTranslationUnit_CopyCtor(hnObjs[from])
       IN  HnStep([hnObjs EXCEPT ![o] = r.new, ![from] = r.other], hnLib)

HnDestroy(o) ==
    /\ hnObjs[o].live
    /\ HnStep([hnObjs EXCEPT ![o] = NoUnit], ClTranslationUnit_Dtor(hnObjs[o], hnLib))

HandleNext ==
    \/ \E o \in 1..MaxObjects : HnConstruct(o)
    \/ \E o \in 1..MaxObjects, hasFilename \in BOOLEAN, parsed \in BOOLEAN,
          ret \in {0, 1} : HnParse(o, hasFilename, parsed, ret)
    \/ \E o \in 1..MaxObjects, ret \in {0, 1} : HnReparse(o, ret)
    \/ \E o \in 1..MaxObjects : HnUse(o)
    \/ \E o \in 1..MaxObjects, from \in 1..MaxObjects : HnCopy(o, from)
    \/ \E o \in 1..MaxObjects : HnDestroy(o)

-----------------------------------------------------------------------------
(* A CodeCompleteAtJob whose poster waits with a timeout, reads the        *)
(* results and calls Finalize, while the worker runs operator() on the     *)
(* clone.  *m_pMutex, *m_pCond and *m_pResults are heap objects that both  *)
(* copies point to.  An access to a deleted object is undefined: the       *)
(* worker either goes on as if the object were there or stops.             *)

SharedObjects == {"m_pMutex", "m_pCond", "m_pResults"}

\* SyncJob(...): new wxMutex(), new wxCondition(*m_pMutex);
\* CodeCompleteAtJob(...): new std::vector<ClToken>().
SyncJob_Heap == [obj \in SharedObjects |-> [alive |-> TRUE, deletes |-> 0]]

Heap_Delete(heap, obj) ==
    [heap EXCEPT ![obj] = [alive |-> FALSE, deletes |-> @.deletes + 1]]

\* SyncJob::Finalize: delete m_pMutex; delete m_pCond.
SyncJob_Finalize(heap) == Heap_Delete(Heap_Delete(heap, "m_pMutex"), "m_pCond")

\* CodeCompleteAtJob::Finalize: SyncJob::Finalize(); delete m_pResults.
CodeCompleteAtJob_Finalize(heap) == Heap_Delete(SyncJob_Finalize(heap), "m_pResults")

FinIdle ==
    /\ fnPoster = "start"
    /\ fnWorker = "idle"
    /\ fnHeap = SyncJob_Heap
    /\ fnMutex = "free"
    /\ fnWaiting = FALSE
    /\ fnWake = "none"
    /\ fnRet = "none"
    /\ fnResults = <<>>
    /\ fnRead = <<>>
    /\ fnTouched = {}

\* The worker's access to a shared object: noted when the object is gone.
FnAccess(objs) == fnTouched' = fnTouched \cup {obj \in objs : ~fnHeap[obj].alive}

\* The worker's next position after an access to objs: pc, or "stopped" as
\* one of the outcomes when an object is gone.
FnAfter(objs, pc) ==
    \/ fnWorker' = pc
    \/ /\ \E obj \in objs : ~fnHeap[obj].alive
       /\ fnWorker' = "stopped"

\* AppendPendingJob(job): the clone is queued for the worker.
FnPost ==
    /\ fnPoster = "start"
    /\ fnPoster' = "posted"
    /\ fnWorker' = "queued"
    /\ UNCHANGED <<fnHeap, fnMutex, fnWaiting, fnWake, fnRet, fnResults, fnRead,
                   fnTouched, notFin>>

\* operator(): Execute starts; CodeCompleteAt runs on the translation unit.
FnExecuteBegin ==
    /\ fnWorker = "queued"
    /\ fnWorker' = "executing"
    /\ UNCHANGED <<fnPoster, fnHeap, fnMutex, fnWaiting, fnWake, fnRet, fnResults,
                   fnRead, fnTouched, notFin>>

\* The end of Execute: m_pResults->swap(results).
FnExecuteEnd(results) ==
    /\ fnWorker = "executing"
    /\ FnAccess({"m_pResults"})
    /\ FnAfter({"m_pResults"}, "executed")
    /\ fnResults' = results
    /\ UNCHANGED <<fnPoster, fnHeap, fnMutex, fnWaiting, fnWake, fnRet, fnRead, notFin>>

\* SyncJob::Completed: wxMutexLocker lock(*m_pMutex).
FnCompletedLock ==
    /\ fnWorker = "executed"
    /\ fnMutex = "free"
    /\ FnAccess({"m_pMutex"})
    /\ FnAfter({"m_pMutex"}, "locked")
    /\ fnMutex' = "worker"
    /\ UNCHANGED <<fnPoster, fnHeap, fnWaiting, fnWake, fnRet, fnResults, fnRead, notFin>>

\* m_bCompleted = true; m_pCond->Signal().
FnCompletedSignal ==
    /\ fnWorker = "locked"
    /\ FnAccess({"m_pCond"})
    /\ FnAfter({"m_pCond"}, "signaled")
    /\ IF fnWaiting
       THEN fnWaiting' = FALSE /\ fnWake' = "signaled"
       ELSE UNCHANGED <<fnWaiting, fnWake>>
    /\ UNCHANGED <<fnPoster, fnHeap, fnMutex, fnRet, fnResults, fnRead, notFin>>

\* The locker of Completed goes; EventJob::Completed follows.
FnCompletedUnlock ==
    /\ fnWorker = "signaled"
    /\ FnAccess({"m_pMutex"})
    /\ FnAfter({"m_pMutex"}, "done")
    /\ fnMutex' = "free"
    /\ UNCHANGED <<fnPoster, fnHeap, fnWaiting, fnWake, fnRet, fnResults, fnRead, notFin>>

\* WaitCompletion on the poster's copy: the locker, then, m_bCompleted of
\* this copy being false, WaitTimeout, which lets go of the mutex.
FnWaitCompletion ==
    /\ fnPoster = "posted"
    /\ fnMutex = "free"
    /\ fnPoster' = "waiting"
    /\ fnWaiting' = TRUE
    /\ UNCHANGED <<fnWorker, fnHeap, fnMutex, fnWake, fnRet, fnResults, fnRead,
                   fnTouched, notFin>>

\* The milliseconds are over and no signal has come.
FnTimeout ==
    /\ fnPoster = "waiting"
    /\ fnWaiting
    /\ fnWaiting' = FALSE
    /\ fnWake' = "timeout"
    /\ UNCHANGED <<fnPoster, fnWorker, fnHeap, fnMutex, fnRet, fnResults, fnRead,
                   fnTouched, notFin>>

\* WaitTimeout takes the mutex again and returns; the locker lets go.
FnWake ==
    /\ fnPoster = "waiting"
    /\ fnWake # "none"
    /\ fnMutex = "free"
    /\ fnRet' = IF fnWake = "signaled" THEN wxCOND_NO_ERROR ELSE wxCOND_TIMEOUT
    /\ fnPoster' = "returned"
    /\ UNCHANGED <<fnWorker, fnHeap, fnMutex, fnWaiting, fnWake, fnResults, fnRead,
                   fnTouched, notFin>>

\* GetResults() on the poster's copy.
FnRead ==
    /\ fnPoster = "returned"
    /\ fnPoster' = "read"
    /\ fnRead' = fnResults
    /\ UNCHANGED <<fnWorker, fnHeap, fnMutex, fnWaiting, fnWake, fnRet, fnResults,
                   fnTouched, notFin>>

\* job.Finalize() on the poster's copy.
FnFinalize ==
    /\ fnPoster = "read"
    /\ fnPoster' = "finalized"
    /\ fnHeap' = CodeCompleteAtJob_Finalize(fnHeap)
    /\ UNCHANGED <<fnWorker, fnMutex, fnWaiting, fnWake, fnRet, fnResults, fnRead,
                   fnTouched, notFin>>

FinNext ==
    \/ FnPost
    \/ FnExecuteBegin
    \/ \E results \in ResultLists : FnExecuteEnd(results)
    \/ FnCompletedLock
    \/ FnCompletedSignal
    \/ FnCompletedUnlock
    \/ FnWaitCompletion
    \/ FnTimeout
    \/ FnWake
    \/ FnRead
    \/ FnFinalize

-----------------------------------------------------------------------------
(* ClTokenDatabase::StoreIndexes run by one worker thread while the other  *)
(* worker thread looks tokens up in the same project index.  StoreIndexes  *)
(* itself takes no lock; each RemoveFileTokens and UpdateToken call and    *)
(* each lookup holds the index's mutex from its first to its last          *)
(* statement, so each is one step.                                         *)

MaxStoreTokens == 2
MaxStores == 2

StoreFileIds == {0, 1}

StoreTokens ==
    {TdToken(<<102>>, fileId, ClTokenType_FuncDecl, tokenHash) :
        fileId \in StoreFileIds, tokenHash \in 1..2}

NoObservation ==
    [op |-> "none", during |-> "idle", result |-> {}, before |-> {}, after |-> {}]

\* What a lookup answers on index: the set of files, or the position record.
StoreLookup(index, op, fileId, USR) ==
    IF op = "LookupTokenFileList"
    THEN IndexDB_LookupTokenFileList(index, <<102>>, USR, ClTokenType_FuncDecl)
    ELSE {IndexDB_LookupTokenPosition(index, <<102>>, fileId, USR,
                                      ClTokenType_FuncDecl)}

StoreIdle ==
    /\ stPc = "idle"
    /\ stKeys = <<>>
    /\ stId = 0
    /\ stDb = TokenDB_New
    /\ stIndex = IndexDB_New
    /\ stBefore = IndexDB_New
    /\ stStores = 0
    /\ stLast = NoObservation

\* The translation unit's database gets a token (InsertToken).
StInsertToken(token) ==
    /\ stPc = "idle"
    /\ TokenDB_GetTokenCount(stDb) < MaxStoreTokens
    /\ stDb' = TokenDB_InsertToken(stDb, token).db
    /\ UNCHANGED <<stPc, stKeys, stId, stIndex, stBefore, stStores, stLast>>
    /\ UNCHANGED notStore

\* StoreIndexes is entered: keySet = m_pFileTokens->GetKeySet().
StStoreIndexes ==
    /\ stPc = "idle"
    /\ stStores < MaxStores
    /\ stStores' = stStores + 1
    /\ stPc' = "removing"
    /\ stKeys' = SortedStrings(IntTree_GetKeySet(stDb.fileTokens))
    /\ stId' = 0
    /\ stBefore' = stIndex
    /\ UNCHANGED <<stDb, stIndex, stLast>>
    /\ UNCHANGED notStore

\* One round of the first loop: m_pTokenIndexDB->RemoveFileTokens(fId).
StRemoveFileTokens ==
    /\ stPc = "removing"
    /\ stKeys # <<>>
    /\ stIndex' = IndexDB_RemoveFileTokens(stIndex, wxAtoi(Head(stKeys)))
    /\ stKeys' = Tail(stKeys)
    /\ UNCHANGED <<stPc, stId, stDb, stBefore, stStores, stLast>>
    /\ UNCHANGED notStore

\* The first loop is over.
StRemoved ==
    /\ stPc = "removing"
    /\ stKeys = <<>>
    /\ stPc' = "updating"
    /\ UNCHANGED <<stKeys, stId, stDb, stIndex, stBefore, stStores, stLast>>
    /\ UNCHANGED notStore

\* One round of the second loop: m_pTokenIndexDB->UpdateToken(...).
StUpdateToken ==
    /\ stPc = "updating"
    /\ stId < TreeMap_GetCount(stDb.tokens)
    /\ LET token == TreeMap_GetValue(stDb.tokens, stId) IN
       stIndex' = IndexDB_UpdateToken(stIndex, token.identifier, token.displayName,
                      token.fileId, token.USR, token.tokenType, token.range,
                      token.parentTokenList, token.scope)
    /\ stId' = stId + 1
    /\ UNCHANGED <<stPc, stKeys, stDb, stBefore, stStores, stLast>>
    /\ UNCHANGED notStore

\* StoreIndexes returns.
StStored ==
    /\ stPc = "updating"
    /\ stId >= TreeMap_GetCount(stDb.tokens)
    /\ stPc' = "idle"
    /\ UNCHANGED <<stKeys, stId, stDb, stIndex, stBefore, stStores, stLast>>
    /\ UNCHANGED notStore

\* The other thread's LookupTokenFileList or LookupTokenPosition, with what
\* it would have answered before StoreIndexes and after all of it.  One
\* lookup is followed per behaviour.
StLookup(op, fileId, USR) ==
    /\ stLast = NoObservation
    /\ stLast' = [op |-> op, during |-> stPc,
                  result |-> StoreLookup(stIndex, op, fileId, USR),
                  before |-> StoreLookup(IF stPc = "idle" THEN stIndex ELSE stBefore,
                                         op, fileId, USR),
                  after |-> StoreLookup(IF stPc = "idle" THEN stIndex
                                        ELSE TokenDB_StoreIndexes(stDb, stBefore),
                                        op, fileId, USR)]
    /\ UNCHANGED <<stPc, stKeys, stId, stDb, stIndex, stBefore, stStores>>
    /\ UNCHANGED notStore

StoreNext ==
    \/ /\ stPc = "idle"
       /\ \E token \in StoreTokens : StInsertToken(token)
    \/ StStoreIndexes
    \/ StRemoveFileTokens
    \/ StRemoved
    \/ StUpdateToken
    \/ StStored
    \/ /\ stLast = NoObservation
       /\ \E op \in {"LookupTokenFileList", "LookupTokenPosition"},
             fileId \in StoreFileIds, USR \in {<<>>, <<117>>} :
                 StLookup(op, fileId, USR)

-----------------------------------------------------------------------------
(* Specifications                                                          *)

\* Every component freshly constructed.
Init ==
    /\ TreeIdle
    /\ FileIdle
    /\ IndexIdle
    /\ SyncIdle
    /\ CloneIdle
    /\ CompleteIdle
    /\ LookupIdle
    /\ DiagIdle
    /\ HashIdle
    /\ UnitIdle
    /\ UiIdle
    /\ RunIdle
    /\ TokenIdle
    /\ PaintIdle
    /\ StampIdle
    /\ NameIdle
    /\ VisitIdle
    /\ HandleIdle
    /\ FinIdle
    /\ StoreIdle

SpecTree == Init /\ [][TreeNext]_vars

SpecFile == Init /\ [][FileNext]_vars

SpecIndex == Init /\ [][IndexNext]_vars

SpecStream == Init /\ [][StreamNext]_vars

SpecMerge == Init /\ [][MergeNext]_vars

SpecSync == Init /\ [][SyncNext]_vars

SpecClone == Init /\ [][CloneNext]_vars

SpecComplete == Init /\ [][CompleteNext]_vars

SpecLookup == Init /\ [][LookupNext]_vars

SpecDiag == Init /\ [][DiagNext]_vars

SpecHash == Init /\ [][HashNext]_vars

SpecUnit == Init /\ [][UnitNext]_vars

SpecUi == Init /\ [][UiNext]_vars

SpecRun == Init /\ [][RunNext]_vars

SpecTokens == Init /\ [][TokenNext]_vars

SpecPaint == Init /\ [][PaintNext]_vars

SpecStamp == Init /\ [][StampNext]_vars

SpecVisit == Init /\ [][VisitNext]_vars

SpecHandles == Init /\ [][HandleNext]_vars

SpecFinalize == Init /\ [][FinNext]_vars

SpecStore == Init /\ [][StoreNext]_vars

SpecNames == Init /\ [][NameNext]_vars

\* The thread that is inside LookupTokenDisplayName keeps running.
FairNames == SpecNames /\ WF_vars(NmEnter) /\ WF_vars(NmReturn)

\* C6: every id returned by an earlier Insert stays valid and resolves to
\* the value inserted under it, whatever Insert, Remove, RemoveIdKey and
\* Shrink calls follow, and GetCount() never drops below an earlier count.
C6_IdsStable ==
    /\ \A id \in 0..(Len(tmIssued) - 1) :
          /\ TreeMap_HasValue(TreeUnderTest, id)
          /\ TreeMap_GetValue(TreeUnderTest, id) = tmIssued[id + 1]
    /\ TreeMap_GetCount(TreeUnderTest) >= tmPeak

\* Two values are stored, the first one's key has been removed, and a
\* removal was the last operation.
C6_Witness ==
    /\ Len(tmIssued) >= 2
    /\ tmLast \in {"Remove", "RemoveIdKey"}
    /\ tmIssued[1] # tmIssued[2]
    /\ \A k \in TreeKeys : 0 \notin TreeMap_GetIdSet(TreeUnderTest, k)


-----------------------------------------------------------------------------
(* ClTokenIndexDatabase: UpdateToken and RemoveFileTokens (SpecIndex).     *)

\* How many entries of list equal x.
Count(list, x) == Cardinality({i \in DOMAIN list : list[i] = x})

C5_RemoveFileTokensErasesAll ==
    ixCall.op = "RemoveFileTokens" =>
        LET f == ixCall.a.fileId IN
        /\ \A id \in ixCall.tokenList :
              TreeMap_HasValue(idx.tokens, id) =>
                 \A i \in DOMAIN TreeMap_GetValue(idx.tokens, id).locationList :
                    TreeMap_GetValue(idx.tokens, id).locationList[i].fileId # f
        /\ IntTree_GetIdSet(idx.fileTokens, FormatInt(f)) = {}

-----------------------------------------------------------------------------
(* ClTokenIndexDatabase: WriteOut and ReadIn (SpecStream).                 *)

\* The integer held by header field n of the file (1: format version,
\* 2: major, 3: minor).
HeaderField(n) == DecodeSigned(SubSeq(ixStream, 4 * n + 1, 4 * n + 4))

\* What the round trip is to keep of a token.
SameContent(t, u) ==
    /\ t.identifier = u.identifier
    /\ t.USR = u.USR
    /\ t.tokenTypeMask = u.tokenTypeMask
    /\ Range(t.locationList) = Range(u.locationList)
    /\ Range(t.parentTokenList) = Range(u.parentTokenList)
    /\ t.scope = u.scope

\* C4: WriteOut followed by ReadIn into a fresh database succeeds and
\* yields, for every (identifier, USR) pair present before writing, a token
\* filed under that identifier with the same type mask, the same set of
\* locations, the same set of override pairs and the same scope pair.
C4_RoundTripKeepsTokens ==
    (ixPhase = "read" /\ ixTamper = "none") =>
        /\ ixReadOk
        /\ \A id \in 0..(TreeMap_GetCount(idx.tokens) - 1) :
              LET t == TreeMap_GetValue(idx.tokens, id) IN
              \E id2 \in IndexDB_Matches(ixLoaded, t.identifier, t.USR) :
                  SameContent(t, TreeMap_GetValue(ixLoaded.tokens, id2))

\* C8: ReadIn on a stream whose format version is not 5, or whose major or
\* minor library version is not the running library's, returns failure and
\* leaves a fresh target database empty.
C8_VersionMismatchLoadsNothing ==
    (/\ ixPhase = "read"
     /\ Len(ixStream) >= 16
     /\ \/ HeaderField(1) # FormatVersion
        \/ HeaderField(2) # CINDEX_VERSION_MAJOR
        \/ HeaderField(3) # CINDEX_VERSION_MINOR)
    => (~ixReadOk /\ ixLoaded = IndexDB_New)

\* A file with a filename and a token in it, right format version and
\* major, but another minor version, has been read.
C8_Witness ==
    /\ ixPhase = "read"
    /\ ixTamper = "header"
    /\ HeaderField(1) = FormatVersion
    /\ HeaderField(2) = CINDEX_VERSION_MAJOR
    /\ HeaderField(3) # CINDEX_VERSION_MINOR
    /\ TreeMap_GetCount(idx.tokens) > 0
    /\ ~ixReadOk

\* C9: ReadIn returns failure for every stream that ends before a declared
\* field is complete: every file that was cut short, wherever the cut is.
C9_TruncatedStreamFails ==
    (ixPhase = "read" /\ ixTamper = "cut") => ~ixReadOk

\* C10: ReadIn rejects a stream whose first four bytes are not "ClDb",
\* also when the version fields after them are all right.
C10_BadMagicRejected ==
    (ixPhase = "read" /\ Len(ixStream) >= 16 /\ SubSeq(ixStream, 1, 4) # MagicBytes)
    => ~ixReadOk


-----------------------------------------------------------------------------
(* Synchronous jobs (SpecSync).                                            *)

\* C1: when the worker copy's Completed has run before the poster calls
\* WaitCompletion, or runs while the poster waits and the timeout has not
\* elapsed, WaitCompletion on the poster's copy returns wxCOND_NO_ERROR.
C1_WaitCompletionSignaled ==
    (syPoster \in {"returned", "read"} /\ syWhen \in {"before the wait", "during the wait"})
    => syRet = wxCOND_NO_ERROR

\* C2: once the worker has executed and completed the clone, the poster's
\* copy returns through GetResults and GetDiagnostics the results and the
\* diagnostics that the worker copy's Execute produced.
C2_PosterReadsWhatWorkerProduced ==
    (syPoster = "read" /\ syReadAfter) =>
        /\ syRead.results = syProduced.results
        /\ syRead.diagnostics = syProduced.diagnostics

-----------------------------------------------------------------------------
(* Jobs and their clones (SpecClone).                                      *)

\* C11: whatever is done to the input fields of a clone (the unsaved-files
\* map, the compile command list, the file), the clearing of the map by
\* Execute included, the original job's fields keep the values they were
\* constructed with.
C11_CloneIndependent ==
    cjJob # NoJob => \A f \in JobFields : cjCells[cjJob[f]] = cjGiven[f]

\* Execute has just cleared the map of a clone of a job constructed with a
\* non-empty map, and another clone's compile command differs from the
\* original's.
C11_Witness ==
    /\ cjJob # NoJob
    /\ cjGiven["m_UnsavedFiles"] # {}
    /\ cjLast = <<"Execute", "m_UnsavedFiles">>
    /\ \E n \in DOMAIN cjClones : cjCells[cjClones[n].m_UnsavedFiles] = {}
    /\ \E n \in DOMAIN cjClones :
          cjCells[cjClones[n].m_CompileCommand] # cjGiven["m_CompileCommand"]

-----------------------------------------------------------------------------
(* CodeCompleteAtJob::Execute (SpecComplete).                              *)

\* C12: after Execute with the include-constructors option off, the list
\* GetResults() exposes holds no candidate of category public constructor
\* or public destructor.
C12_NoCtorsWhenOff ==
    (ccPhase = "executed" /\ ~ccIncludeCtors) =>
        \A i \in DOMAIN ccResults :
            ccResults[i].category \notin {"tcCtorPublic", "tcDtorPublic"}

-----------------------------------------------------------------------------
(* LookupDefinitionJob::Execute (SpecLookup).                              *)

\* C13: when the native definition resolution succeeds, Execute leaves
\* exactly one result, the resolved file with the resolved position, and
\* neither loads nor queries the project index.
C13_ResolvedIsSoleResult ==
    (lkPhase = "executed" /\ lkNative.resolved) =>
        /\ lkLocations = <<<<lkNative.defFile, lkNative.defPos>>>>
        /\ ~lkTrace.loaded
        /\ ~lkTrace.queried

\* A resolution succeeded while the index held a definition of "f" at
\* another position.
C13_Witness ==
    /\ lkPhase = "executed"
    /\ lkNative.resolved
    /\ IndexDB_LookupTokenPosition(lkDb, <<102>>, 0, <<>>, ClTokenType_DefGroup).found
    /\ IndexDB_LookupTokenPosition(lkDb, <<102>>, 0, <<>>, ClTokenType_DefGroup).pos
          # lkNative.defPos

\* The definition-group locations the index holds for (identifier, USR),
\* as (token id, place in its location list).
DefPlaces(db, identifier, USR) ==
    {p \in TreeMap_GetIdSet(db.tokens, identifier) \X (1..MaxLocations) :
        /\ Len(USR) = 0 \/ TreeMap_GetValue(db.tokens, p[1]).USR = USR
        /\ p[2] <= Len(TreeMap_GetValue(db.tokens, p[1]).locationList)
        /\ BitAnd(TreeMap_GetValue(db.tokens, p[1]).locationList[p[2]].tokenType,
                  ClTokenType_DefGroup) = ClTokenType_DefGroup}

NoCandidateYields(db, native) ==
    /\ \A f \in IndexDB_LookupTokenFileList(db, native.identifier, native.USR,
                                            ClTokenType_DefGroup) :
          ~ClangProxy_LookupTokenDefinition(db, f, native.identifier, native.USR).found
    /\ \A k \in DOMAIN native.USRList :
          \A f \in IndexDB_LookupTokenFileList(db, native.identifier, native.USRList[k],
                                               ClTokenType_Unknown) :
             /\ ~ClangProxy_LookupTokenDefinition(db, f, native.identifier,
                                                  native.USRList[k]).found
             /\ ~IndexDB_LookupTokenPosition(db, native.identifier, f, native.USRList[k],
                                             ClTokenType_DefGroup).found

\* C15: when the resolution fails and no token is found, or the project
\* index cannot be loaded, or no candidate file yields a position in
\* either stage, Execute ends with an empty result list; and the override
\* stage runs only when the direct stage produced no result.
C15_NothingFoundIsEmpty ==
    (lkPhase = "executed" /\ ~lkNative.resolved) =>
        /\ (\/ ~lkNative.tokenFound
            \/ ~lkNative.loadable
            \/ NoCandidateYields(lkDb, lkNative)) => lkLocations = <<>>
        /\ lkTrace.overrides => lkTrace.direct = 0

\* Both stages ran over an index that knows "f" and its overrider's USR,
\* and nothing was found.
C15_Witness ==
    /\ lkPhase = "executed"
    /\ ~lkNative.resolved /\ lkNative.tokenFound /\ lkNative.loadable
    /\ lkNative.USRList # <<>>
    /\ lkTrace.overrides
    /\ TreeMap_GetIdSet(lkDb.tokens, lkNative.identifier) # {}
    /\ lkLocations = <<>>

\* The diagnostic the last call appended, and whether it appended one.
DgAppended == dgPhase = "expanded" /\ Len(dgList) = Len(dgBefore) + 1

FirstNonEmpty(ranges) ==
    IF \E j \in DOMAIN ranges : ranges[j][1] # ranges[j][2]
    THEN <<ranges[CHOOSE j \in DOMAIN ranges :
                    /\ ranges[j][1] # ranges[j][2]
                    /\ \A k \in 1..(j - 1) : ranges[k][1] = ranges[k][2]]>>
    ELSE <<>>

\* The range the stated order picks: own ranges, then fix-it ranges, then
\* the cursor extent.
OrderedChoice(diag) ==
    LET own == FirstNonEmpty(diag.ranges)
        fix == FirstNonEmpty([j \in DOMAIN diag.fixits |-> diag.fixits[j].range])
    IN  IF own # <<>> THEN own[1]
        ELSE IF fix # <<>> THEN fix[1]
        ELSE diag.extent

\* C18: the appended diagnostic's range is the first non-empty own range,
\* else the first non-empty fix-it range, else the extent of the cursor at
\* the diagnostic's location (tried whenever the first two give no non-empty
\* range), collapsed to the reported column when it does not contain it.
C18_RangeOrder ==
    DgAppended =>
        LET rg == ExpandDiagnostic_Clamp(dgDiag.column,
                                         RangeToColumns(OrderedChoice(dgDiag)))
        IN  dgList[Len(dgList)].range = <<rg.rgStart, rg.rgEnd>>

\* C19: every appended diagnostic has start <= reported column <= end, and
\* a chosen range that does not contain the reported column is replaced by
\* the zero-width range at that column.
C19_RangeHoldsColumn ==
    DgAppended =>
        LET out == dgList[Len(dgList)].range
            found == ExpandDiagnostic_Found(dgDiag)
        IN  /\ out[1] <= dgDiag.column
            /\ dgDiag.column <= out[2]
            /\ ~(found.rgStart <= dgDiag.column /\ dgDiag.column <= found.rgEnd)
                  => out = <<dgDiag.column, dgDiag.column>>

C19_Witness ==
    /\ DgAppended
    /\ Len(dgBefore) = 1
    /\ ExpandDiagnostic_Found(dgDiag).rgStart > dgDiag.column
    /\ ExpandDiagnostic_Found(dgDiag).rgEnd > ExpandDiagnostic_Found(dgDiag).rgStart
    /\ dgList[2].range = <<dgDiag.column, dgDiag.column>>

\* The bytes of all chunks of a completion string, in order.
RECURSIVE ChunkBytes(_)
ChunkBytes(token) ==
    IF token = <<>> THEN <<>>
    ELSE Utf8Encode(Head(token).text) \o ChunkBytes(Tail(token))

\* 32-bit FNV-1a: xor in the byte value 0..255, multiply by 16777619.
RECURSIVE FNV1a(_, _)
FNV1a(h, bytes) ==
    IF bytes = <<>> THEN h
    ELSE FNV1a(WordMul(Word(h[1], BitXor(h[2], Head(bytes))), FNV_Prime), Tail(bytes))

\* C20: HashToken returns the 32-bit FNV-1a value (basis 2166136261, prime
\* 16777619, modulo 2^32) of the concatenated UTF-8 bytes of all chunks, for
\* every byte value including bytes >= 0x80, a leading '~' included.
C20_HashIsFNV1a ==
    hsPhase = "hashed" => hsHash = FNV1a(FNV_Basis, ChunkBytes(hsToken))

\* C16: once a Parse or Reparse has failed the handle is null, and until a
\* Parse succeeds every CodeCompleteAt, GetTokenAt, Reparse,
\* ProcessAllTokens and GetDiagnostics call makes no call into the native
\* parser, returns null and leaves its output arguments as they were.
C16_FailedUnitIsInert ==
    /\ tuFailed => tuUnit.m_ClTranslUnit = nullptr
    /\ (/\ tuLast.failedBefore
        /\ tuLast.op \in {"CodeCompleteAt", "GetTokenAt", "Reparse",
                          "ProcessAllTokens", "GetDiagnostics"})
          => /\ \A i \in DOMAIN tuLast.calls : tuLast.calls[i] = "clang_getNullCursor"
             /\ tuLast.ret = nullptr
             /\ tuLast.after = tuLast.before

C16_Witness ==
    /\ tuLast.failedBefore
    /\ tuLast.op = "CodeCompleteAt"
    /\ tuUnit.m_LastCC # nullptr
    /\ Len(tuUnit.m_Files) = 1

\* C17: after every Parse and every Reparse call, successful or not,
\* GetCCResult returns no result for any index, and the cache never holds a
\* result computed against a handle that has since been reparsed or
\* disposed.
C17_CacheInvalidated ==
    /\ tuLast.op \in {"Parse", "Reparse"} =>
          \A index \in 0..MaxResults :
              ClTranslationUnit_GetCCResult(tuUnit, tuLib, index) = nullptr
    /\ \A r \in tuLib.results :
          r.ptr = tuUnit.m_LastCC => <<r.unit, r.parsedAt>> \in tuLib.units

\* The file ids of the locations of the tokens of an index database that
\* its filename database does not hold.
UnknownFileIds(db) ==
    UNION { {loc.fileId : loc \in Range(TreeMap_GetValue(db.tokens, id).locationList)} :
            id \in 0..(TreeMap_GetCount(db.tokens) - 1) }
        \ {fId \in 0..(TreeMap_GetCount(db.fileDB) - 1) : TreeMap_HasValue(db.fileDB, fId)}

PairTokens(db, identifier, USR) ==
    {id \in 0..(TreeMap_GetCount(db.tokens) - 1) :
        /\ TreeMap_GetValue(db.tokens, id).identifier = identifier
        /\ TreeMap_GetValue(db.tokens, id).USR = USR}

\* C30: after any sequence of UpdateToken and RemoveFileTokens on an empty
\* index at most one token exists for each (identifier, USR) pair, and an
\* UpdateToken leaves the one token of its pair with its type in the
\* aggregate mask.
C30_OneTokenPerPair ==
    /\ \A id \in 0..(TreeMap_GetCount(idx.tokens) - 1) :
          PairTokens(idx, TreeMap_GetValue(idx.tokens, id).identifier,
                     TreeMap_GetValue(idx.tokens, id).USR) = {id}
    /\ ixCall.op = "UpdateToken" =>
          \E id \in PairTokens(idx, ixCall.a.identifier, ixCall.a.USR) :
              /\ PairTokens(idx, ixCall.a.identifier, ixCall.a.USR) = {id}
              /\ id \in TreeMap_GetIdSet(idx.tokens, ixCall.a.identifier)
              /\ BitAnd(TreeMap_GetValue(idx.tokens, id).tokenTypeMask, ixCall.a.tokType)
                    = ixCall.a.tokType

\* A declaration, the removal of its file, and then the definition: the
\* pair's token is reused and holds both types.
C30_Witness ==
    /\ ixCall.op = "UpdateToken"
    /\ ixCall.a.tokType = BitOr(ClTokenType_FuncDecl, ClTokenType_DefGroup)
    /\ TreeMap_GetCount(idx.tokens) = 2
    /\ \E id \in PairTokens(idx, ixCall.a.identifier, ixCall.a.USR) :
          /\ Len(TreeMap_GetValue(idx.tokens, id).locationList) = 1
          /\ TreeMap_GetValue(idx.tokens, id).tokenTypeMask
                = BitOr(ClTokenType_FuncDecl, ClTokenType_DefGroup)
          /\ TreeMap_GetValue(idx.tokens, id).locationList[1].tokenType
                = BitOr(ClTokenType_FuncDecl, ClTokenType_DefGroup)
          /\ ixCall.a.identifier = <<103>>

\* C23: a diagnostics-updated event whose translation-unit id differs from
\* the id held for the active editor changes neither the cached list nor
\* any annotation or indicator; editor activation empties the cached list;
\* editor close empties it and resets the held id to -1.
C23_StaleEventsIgnored ==
    [][/\ (uiLast'.op = "OnDiagnostics" /\ uiLast'.id # uiLast'.current)
             => (m_Diagnostics' = m_Diagnostics /\ uiStc' = uiStc)
       /\ uiLast'.op = "OnEditorActivate" => m_Diagnostics' = <<>>
       /\ uiLast'.op = "OnEditorClose"
             => (m_Diagnostics' = <<>> /\ m_TranslUnitId' = -1)]_uiVars

\* A diagnostics event for another unit has just reached the component
\* while an editor with a cached list and drawn marks was active.
C23_Witness ==
    /\ uiLast.op = "OnDiagnostics"
    /\ uiLast.id # uiLast.current
    /\ uiActive # 0
    /\ m_Diagnostics # <<>>
    /\ uiStc[uiActive].indicators # {}
    /\ \E l \in UiLines : uiStc[uiActive].annotation[l].text # <<>>

\* C24: after OnAttach followed by OnRelease none of the registrations
\* made in OnAttach remains: both menu-command handlers are disconnected
\* and every event sink registered for the component is removed.
C24_NothingRemains ==
    uiLast.op = "OnRelease"
        => /\ idGotoNextDiagnostic \notin Range(uiConnected)
           /\ idGotoPrevDiagnostic \notin Range(uiConnected)
           /\ uiManagerSinks = <<>>
           /\ uiPluginSinks = <<>>

\* C22: running a job calls Execute once and then Completed once, in that
\* order; Completed posts exactly one completion event with the job's
\* event type and id, carrying a copy of the job that holds the results
\* Execute produced, when a handler is registered and the event type is
\* non-zero, and posts no event when the event type is zero.
C22_RunPostsOneEvent ==
    /\ jrTrace \in {<<>>, <<"Execute">>, <<"Execute", "Completed">>}
    /\ jrPc = "done" <=> jrTrace = <<"Execute", "Completed">>
    /\ jrPc = "done" =>
          /\ jrPosted = IF jrHandler # nullptr /\ jrJob.m_EventType # 0
                        THEN 1 ELSE 0
          /\ jrJob.m_EventType = 0 => jrPosted = 0
          /\ (jrPosted = 1 /\ jrPending # <<>>) =>
                LET evt == jrPending[Len(jrPending)]
                IN  /\ evt.m_eventType = jrJob.m_EventType
                    /\ evt.m_id = jrJob.m_EventId
                    /\ evt.m_callbackUserData # NullJob
                    /\ evt.m_callbackUserData.m_JobType = jrJob.m_JobType
                    /\ GetResults(jrCells, evt.m_callbackUserData)
                           = GetResults(jrCells, jrJob)

\* A job with a non-zero event type has run over a registered handler,
\* left results, and its event is the newest pending one.
C22_Witness ==
    /\ jrPc = "done"
    /\ jrHandler # nullptr
    /\ jrJob.m_EventType # 0
    /\ jrPosted = 1
    /\ jrPending # <<>>
    /\ GetResults(jrCells, jrPending[Len(jrPending)].m_callbackUserData) # <<>>

\* The four fields that identify a token of the database.
TokenKey(token) ==
    <<token.identifier, token.fileId, token.tokenType, token.tokenHash>>

\* C25: after any sequence of InsertToken calls two inserted tokens have
\* the same id if and only if they agree on identifier, file id, type and
\* hash, and the table holds one slot for each distinct token.
C25_InsertIdentity ==
    Len(tdInserted) = tdNow =>
        /\ \A i, j \in DOMAIN tdInserted :
              tdInserted[i].id = tdInserted[j].id
                  <=> TokenKey(tdInserted[i].token) = TokenKey(tdInserted[j].token)
        /\ TokenDB_GetTokenCount(tdDb)
               = Cardinality({TokenKey(tdInserted[i].token) : i \in DOMAIN tdInserted})

\* C26: after RemoveToken(id) on a live token GetToken(id) returns a blank
\* token whose file id is not-found, id is no longer among the tokens of
\* the old file nor among the matches of the old identifier, and the
\* token count is unchanged.
C26_RemoveBlanks ==
    (/\ tdLast.op = "RemoveToken"
     /\ tdLast.returned
     /\ tdLast.id \notin tdLast.removed
     /\ TokenDB_GetToken(tdLast.db, tdLast.id).fileId # wxNOT_FOUND)
        => /\ TokenDB_GetToken(tdDb, tdLast.id) = ClAbstractToken_Default
           /\ tdLast.id \notin TokenDB_GetFileTokens(tdDb,
                                   TokenDB_GetToken(tdLast.db, tdLast.id).fileId)
           /\ tdLast.id \notin TokenDB_GetTokenMatches(tdDb,
                                   TokenDB_GetToken(tdLast.db, tdLast.id).identifier)
           /\ TokenDB_GetTokenCount(tdDb) = TokenDB_GetTokenCount(tdLast.db)

\* C27: the assertion in UpdateToken, that the target slot's file id is
\* not-found, holds on every call, the one RemoveToken makes included.
C27_AssertionHolds ==
    tdLast.op \in {"UpdateToken", "RemoveToken"} => tdLast.assertion

\* C28: after UpdateToken(id, t) on a cleared slot GetToken(id) returns
\* t's identifier, file id, range, hash and type, id is among the matches
\* of t's identifier and the tokens of t's file, and no longer under the
\* slot's previous identifier.
C28_UpdateRekeys ==
    (/\ tdLast.op = "UpdateToken"
     /\ tdLast.returned
     /\ TokenDB_GetToken(tdLast.db, tdLast.id).fileId = wxNOT_FOUND)
        => /\ TokenDB_GetToken(tdDb, tdLast.id).identifier = tdLast.token.identifier
           /\ TokenDB_GetToken(tdDb, tdLast.id).fileId = tdLast.token.fileId
           /\ TokenDB_GetToken(tdDb, tdLast.id).range = tdLast.token.range
           /\ TokenDB_GetToken(tdDb, tdLast.id).tokenHash = tdLast.token.tokenHash
           /\ TokenDB_GetToken(tdDb, tdLast.id).tokenType = tdLast.token.tokenType
           /\ tdLast.id \in TokenDB_GetTokenMatches(tdDb, tdLast.token.identifier)
           /\ tdLast.id \in TokenDB_GetFileTokens(tdDb, tdLast.token.fileId)
           /\ TokenDB_GetToken(tdLast.db, tdLast.id).identifier # tdLast.token.identifier
                 => tdLast.id \notin TokenDB_GetTokenMatches(tdDb,
                        TokenDB_GetToken(tdLast.db, tdLast.id).identifier)

\* The locations the index holds for a file, each with its token's
\* identifier and USR.
IndexLocations(index, fileId) ==
    UNION {{<<TreeMap_GetValue(index.tokens, id).identifier,
              TreeMap_GetValue(index.tokens, id).USR, loc.range>> :
               loc \in {l \in Range(TreeMap_GetValue(index.tokens, id).locationList) :
                          l.fileId = fileId}} :
           id \in 0..(TreeMap_GetCount(index.tokens) - 1)}

\* The slots that hold a live token: never removed and in a file.
LiveTokens(db, removed) ==
    {id \in 0..(TokenDB_GetTokenCount(db) - 1) :
        id \notin removed /\ TokenDB_GetToken(db, id).fileId # wxNOT_FOUND}

\* The file ids the database refers to.
ReferencedFiles(db) == {wxAtoi(key) : key \in IntTree_GetKeySet(db.fileTokens)}

\* C29: after StoreIndexes the index holds, for every file id the database
\* refers to, exactly the locations of the database's live tokens of that
\* file, cleared slots contribute nothing, and the locations of the other
\* files are as they were.
C29_StoreIndexesExact ==
    tdLast.op = "StoreIndexes" =>
        \A fileId \in TdFileIds(tdIndex) \cup {wxNOT_FOUND} :
            IF fileId \in ReferencedFiles(tdDb)
            THEN IndexLocations(tdIndex, fileId)
                     = {<<TokenDB_GetToken(tdDb, id).identifier,
                          TokenDB_GetToken(tdDb, id).USR,
                          TokenDB_GetToken(tdDb, id).range>> :
                          id \in {i \in LiveTokens(tdDb, tdRemoved) :
                                    TokenDB_GetToken(tdDb, i).fileId = fileId}}
            ELSE IndexLocations(tdIndex, fileId)
                     = IndexLocations(tdLast.index, fileId)

\* Whether the second of two diagnostics overlaps the first on its line.
PaintOverlap(diagnostics) ==
    /\ Len(diagnostics) = 2
    /\ diagnostics[2].line = diagnostics[1].line
    /\ diagnostics[2].range[1] <= diagnostics[1].range[2]

\* C32: when two consecutive diagnostics are on the same line and the
\* later one's range starts at or before the earlier one's end, the later
\* one paints no indicator, whatever its severity: the indicators are the
\* ones the earlier diagnostic paints alone.
C32_OverlapPaintsOnce ==
    (/\ pnPhase = "drawn"
     /\ PaintOverlap(pnEvent.diagnostics))
        => pnStc.indicators
               = OnDiagnostics_Draw(Stc_New,
                     [pnEvent EXCEPT !.diagnostics = <<pnEvent.diagnostics[1]>>],
                     pnCfg, UiFilename(1)).indicators

\* The messages a line's annotation is to show: those of the shown
\* warnings and errors of the file on that line, in list order, each
\* message once.
RECURSIVE ShownMessages(_, _, _, _)
ShownMessages(diagnostics, k, line, cfg) ==
    IF k = 0 THEN <<>>
    ELSE LET before == ShownMessages(diagnostics, k - 1, line, cfg)
             dg == diagnostics[k]
             shown == /\ dg.file = UiFilename(1)
                      /\ dg.line = line
                      /\ \/ dg.severity = "sWarning" /\ cfg.show_warning
                         \/ dg.severity = "sError" /\ cfg.show_error
         IN  IF shown /\ dg.message \notin Range(before)
             THEN Append(before, dg.message) ELSE before

RECURSIVE JoinLines(_)
JoinLines(messages) ==
    IF messages = <<>> THEN <<>>
    ELSE IF Len(messages) = 1 THEN messages[1]
    ELSE messages[1] \o <<10>> \o JoinLines(Tail(messages))

\* C33: with inline display on, a shown warning or error message of the
\* active file is appended to its line's annotation unless the annotation
\* already holds an identical message; a message that is only part of a
\* longer message on the line is still appended.
C33_AppendsUnlessIdentical ==
    (/\ pnPhase = "drawn"
     /\ pnCfg.show_inline
     /\ pnEvent.location = <<0, 0>>)
        => \A line \in UiLines :
              pnStc.annotation[line].text
                  = JoinLines(ShownMessages(pnEvent.diagnostics,
                                            Len(pnEvent.diagnostics), line + 1, pnCfg))


\* C34: the included-file id list that ProcessAllTokens returns for a parsed
\* unit is sorted ascending, holds the unit's own file id and holds no file
\* id twice, also when the inclusion callback reports a file more than once
\* or reports the unit's own file.
C34_IncludeListSortedUnique ==
    (tuLast.op = "ProcessAllTokens" /\ tuLast.calls # <<>>) =>
        LET list == tuLast.after.includeFileList
        IN  /\ \A i \in 1..Len(list), j \in 1..Len(list) :
                   i < j => list[i] < list[j]
            /\ tuUnit.m_FileId \in Range(list)

\* C40: a copy made by Clone() has the job type, event type, event id, job
\* timestamp and creation time of the job it was cloned from, however much
\* time passed between the construction of the original and the cloning.
C40_CloneKeepsTimes ==
    \A i \in 1..Len(tsClones) :
        /\ tsClones[i].m_JobType = tsJob.m_JobType
        /\ tsClones[i].m_EventType = tsJob.m_EventType
        /\ tsClones[i].m_EventId = tsJob.m_EventId
        /\ tsClones[i].m_Timestamp = tsJob.m_Timestamp
        /\ tsClones[i].m_CreationTime = tsJob.m_CreationTime

\* The token the scope reference of token id resolves to, -1 for none.
NameScopeOf(db, id) ==
    LET token == TreeMap_GetValue(db.tokens, id)
        m == LookupTokenDisplayName_Matches(db, token.scope[1], token.scope[2])
    IN  IF m = {} THEN -1 ELSE FirstId(m)

\* The scope chain of token id, outermost first, followed for fuel links.
RECURSIVE NameScopeChain(_, _, _)
NameScopeChain(db, id, fuel) ==
    IF id = -1 \/ fuel = 0 THEN <<>>
    ELSE Append(NameScopeChain(db, NameScopeOf(db, id), fuel - 1), id)

\* No token is its own scope, directly or through other tokens.
NameAcyclic(db) ==
    \A id \in 0..(TreeMap_GetCount(db.tokens) - 1) :
        Len(NameScopeChain(db, id, TreeMap_GetCount(db.tokens) + 1))
            <= TreeMap_GetCount(db.tokens)

RECURSIVE NameOfChain(_, _)
NameOfChain(db, chain) ==
    IF Len(chain) = 1 THEN TreeMap_GetValue(db.tokens, chain[1]).displayName
    ELSE TreeMap_GetValue(db.tokens, chain[1]).displayName \o ColonColon
             \o NameOfChain(db, Tail(chain))

C31_Result ==
    (nmLast.done /\ NameAcyclic(nmDb)) =>
        LET m == LookupTokenDisplayName_Matches(nmDb, nmLast.identifier, nmLast.USR)
        IN  IF m = {} THEN ~nmLast.found
            ELSE /\ nmLast.found
                 /\ nmLast.out_DisplayName =
                        NameOfChain(nmDb,
                            NameScopeChain(nmDb, FirstId(m),
                                           TreeMap_GetCount(nmDb.tokens)))

C37_NoSecondLock == mxAttempt.held = 0

\* C35: a cursor of kind field declaration, enum-constant declaration or
\* typedef declaration makes the visitor insert no token into the token
\* database and append no function-scope entry, and the traversal goes on
\* with the cursor's siblings.
C35_PlainDeclsInsertNothing ==
    avLast.cursor.kind \in {"CXCursor_FieldDecl", "CXCursor_EnumConstantDecl",
                            "CXCursor_TypedefDecl"} =>
        /\ avCtx.database = avLast.before.database
        /\ avCtx.functionScopes = avLast.before.functionScopes
        /\ avLast.ret = "CXChildVisit_Continue"

\* The objects that hold handle h.
HandleHolders(h) == {o \in 1..MaxObjects : hnObjs[o].m_ClTranslUnit = h}

\* How often handle h has been disposed.
HandleDisposals(h) ==
    Cardinality({i \in 1..Len(hnLib.disposed) : hnLib.disposed[i] = h})

\* C36: over every sequence of Parse, Reparse, copy or move construction
\* and destruction, a native handle is held by at most one object, is
\* disposed once when no object holds it any more and not before, and is
\* never passed to a native call after its disposal.
C36_HandleDisposedOnce ==
    /\ ~hnLib.misused
    /\ \A h \in 1..hnLib.obtained :
          \/ Cardinality(HandleHolders(h)) = 1 /\ HandleDisposals(h) = 0
          \/ Cardinality(HandleHolders(h)) = 0 /\ HandleDisposals(h) = 1

C36_Witness ==
    /\ hnLib.obtained = 3
    /\ HandleDisposals(1) = 1
    /\ HandleDisposals(2) = 1
    /\ HandleHolders(3) = {2}
    /\ ~hnObjs[1].live

\* C38: when the poster waits with a timeout, reads the results and calls
\* Finalize, then in every interleaving with the worker the worker's
\* Execute and Completed access none of the shared mutex, condition and
\* result buffer after Finalize has deleted them, and each of these
\* objects is deleted once.
C38_NoAccessAfterFinalize ==
    /\ fnTouched = {}
    /\ \A obj \in SharedObjects : fnHeap[obj].deletes <= 1
    /\ fnPoster = "finalized" => \A obj \in SharedObjects : fnHeap[obj].deletes = 1

\* C39: StoreIndexes is atomic for the lookups of the other worker thread:
\* a LookupTokenFileList or LookupTokenPosition that runs while StoreIndexes
\* is under way answers what it would have answered before StoreIndexes or
\* after all of it, never from the state in between, where the locations
\* of a file are removed and the live tokens not yet stored again.
C39_StoreIndexesAtomic ==
    stLast.during \in {"removing", "updating"} =>
        stLast.result \in {stLast.before, stLast.after}
=============================================================================
